---------------------------- MODULE Spec2Model ----------------------------
(***************************************************************************)
(* A model of the crawler of app/crawler.py and of the robots manager of   *)
(* app/robots_manager.py.                                                  *)
(*                                                                         *)
(* Strings that the code inspects (paths, robots patterns, agent tokens,   *)
(* directive values) are sequences of one-character strings.  Every        *)
(* `await` of a worker is one action: the awaited coroutine runs inside    *)
(* the action until it blocks (an HTTP request in flight, a sleep, a lock  *)
(* or semaphore that is held, an empty queue).  asyncio runs the code      *)
(* between two suspensions without interruption, so the interleavings of   *)
(* the model include those of the event loop.                              *)
(*                                                                         *)
(* Time is counted in ticks.  The monotonic clock itself is not stored:    *)
(* every deadline (a sleep, next_allowed) is kept as the number of ticks   *)
(* left until it, and Tick ages them all.  A step that is not waiting for  *)
(* the network or for a deadline takes no time.                            *)
(***************************************************************************)
EXTENDS Integers, Sequences, FiniteSets, TLC

(***************************************************************************)
(* Bounds of the model.                                                    *)
(***************************************************************************)
MaxPages == 2        \* max_pages is drawn from {0, 1, MaxPages}
MaxRetries == 3      \* max_retries is drawn from {0, 1, MaxRetries}
MaxPathLen == 3      \* paths given to RobotsRules.is_allowed
MaxPatternLen == 2   \* length of one allow / disallow pattern
MaxPatterns == 2     \* patterns per allow / disallow list
MaxCloses == 2       \* closes of the generator after crawl() has ended
MaxCalls == 2        \* track_click requests
MaxClock == 1        \* ticks of the clock of the service
MaxStartups == 2     \* runs of the startup handler
MaxIndexOps == 1     \* calls of the indexer
MaxLines == 4        \* lines of a robots document given to _parse_robots
ResultsCapacity == 1 \* the capacity of a bounded results channel (the least one)

(***************************************************************************)
(* The arguments the crawler is constructed with, besides those Init       *)
(* draws.  A tick is a second.                                             *)
(***************************************************************************)
\* self.retry_backoff, in ticks
retry_backoff == 1

CRAWL_SAME_DOMAIN_ONLY == FALSE

Workers == {"w1", "w2"}          \* the pool of max(1, concurrency) workers

(***************************************************************************)
(* Sequences                                                               *)
(***************************************************************************)
Range(s) == {s[i] : i \in DOMAIN s}

SetMax(S, default) == IF S = {} THEN default ELSE CHOOSE m \in S : \A x \in S : x <= m

SetMin(S) == CHOOSE m \in S : \A x \in S : m <= x

SeqsUpTo(S, n) == UNION {[1..k -> S] : k \in 0..n}

(***************************************************************************)
(* URLs.  urlparse is the standard library's; a URL of the model is        *)
(* already split into the parts the code reads from it.                    *)
(***************************************************************************)
U1 == [scheme |-> "http", netloc |-> "a", path |-> <<"/">>]
U2 == [scheme |-> "http", netloc |-> "a", path |-> <<"/", "x">>]
U3 == [scheme |-> "http", netloc |-> "b", path |-> <<>>]
U4 == [scheme |-> "http", netloc |-> "a", path |-> <<"/", "y">>]

URLs == {U1, U2, U3, U4}

\* an href that urljoin and urlparse reject with ValueError ("//[": an
\* IPv6 host that is not closed)
BadLink == [scheme |-> "http", netloc |-> "[", path |-> <<>>]

\* RobotsManager._domain_key
domain_key(url) == <<url.scheme, url.netloc>>

Origins == {domain_key(u) : u \in URLs}

\* RobotsManager._path: parsed.path or "/" (the URLs of the model carry no query)
path_of(url) == IF url.path = <<>> THEN <<"/">> ELSE url.path

(***************************************************************************)
(* RobotsRules                                                             *)
(***************************************************************************)
\* Optional[float]: <<>> is None, <<d>> is the value d
None == <<>>

EmptyRules == [allows |-> <<>>, disallows |-> <<>>, crawl_delay |-> None]

startswith(s, prefix) ==
    /\ Len(prefix) <= Len(s)
    /\ SubSeq(s, 1, Len(prefix)) = prefix

longest_prefix_length(path_value, patterns) ==
    LET matches == {Len(patterns[i]) : i \in
                       {j \in DOMAIN patterns :
                           patterns[j] # <<>> /\ startswith(path_value, patterns[j])}}
    IN  SetMax(matches, -1)

tie_denies(rules, path) ==
    LET allow_len == longest_prefix_length(path, rules.allows)
        disallow_len == longest_prefix_length(path, rules.disallows)
    IN  IF disallow_len = -1 THEN TRUE
        ELSE IF allow_len = -1 THEN FALSE
        ELSE allow_len > disallow_len

\* RobotsRules.is_allowed
rules_is_allowed(rules, path) ==
    LET allow_len == longest_prefix_length(path, rules.allows)
        disallow_len == longest_prefix_length(path, rules.disallows)
    IN  IF disallow_len = -1 THEN TRUE
        ELSE IF allow_len = -1 THEN FALSE
        ELSE IF allow_len > disallow_len THEN TRUE
        ELSE IF allow_len < disallow_len THEN FALSE
        ELSE TRUE

(***************************************************************************)
(* RobotsManager._parse_robots.  A document is the sequence of its lines;  *)
(* a line is given as raw_line.split("#", 1)[0].strip() leaves it, split   *)
(* at its first colon: colon says whether it holds one, key and value are  *)
(* the stripped parts.  rules_map is a dict: the sequence of its items in  *)
(* insertion order.                                                        *)
(***************************************************************************)
\* self.user_agent: a token with upper-case letters, as config.USER_AGENT has
user_agent == <<"S", "e", "o">>

lower_char(c) == IF c = "S" THEN "s" ELSE IF c = "E" THEN "e" ELSE IF c = "O" THEN "o" ELSE c

lower(s) == [i \in DOMAIN s |-> lower_char(s[i])]

\* key.lower(), on the spellings of the keys the documents of the model use
key_lower_of(key) ==
    CASE key \in {"User-agent", "User-Agent", "USER-AGENT"} -> "user-agent"
      [] key \in {"Allow", "ALLOW"} -> "allow"
      [] key \in {"Disallow", "DISALLOW"} -> "disallow"
      [] key \in {"Crawl-delay", "Crawl-Delay", "CRAWL-DELAY"} -> "crawl-delay"
      [] key \in {"Sitemap"} -> "sitemap"
      [] OTHER -> key

DigitValue(c) ==
    CASE c = "0" -> 0 [] c = "1" -> 1 [] c = "2" -> 2 [] c = "3" -> 3 [] c = "4" -> 4
      [] c = "5" -> 5 [] c = "6" -> 6 [] c = "7" -> 7 [] c = "8" -> 8 [] c = "9" -> 9

DigitChars == {"0", "1", "2", "3", "4", "5", "6", "7", "8", "9"}

RECURSIVE DecimalValue(_)
DecimalValue(s) ==
    IF s = <<>> THEN 0
    ELSE 10 * DecimalValue(SubSeq(s, 1, Len(s) - 1)) + DigitValue(s[Len(s)])

\* float(value): <<d>> when value parses, None on ValueError (whole numbers only)
float_of(value) ==
    IF value # <<>> /\ Range(value) \subseteq DigitChars THEN <<DecimalValue(value)>>
    ELSE IF /\ Len(value) > 1
            /\ value[1] = "-"
            /\ Range(Tail(value)) \subseteq DigitChars
         THEN <<0 - DecimalValue(Tail(value))>>
    ELSE None

map_has(rules_map, agent) == \E i \in DOMAIN rules_map : rules_map[i].agent = agent

map_get(rules_map, agent) ==
    rules_map[CHOOSE i \in DOMAIN rules_map : rules_map[i].agent = agent].rules

\* rules_map.setdefault(agent, RobotsRules())
setdefault(rules_map, agent) ==
    IF map_has(rules_map, agent) THEN rules_map
    ELSE Append(rules_map, [agent |-> agent, rules |-> EmptyRules])

\* lines 84-92: one allow / disallow line applied to every agent of the group
RECURSIVE add_pattern(_, _, _, _)
add_pattern(rules_map, agents, key_lower, value) ==
    IF agents = <<>> THEN rules_map
    ELSE LET m == setdefault(rules_map, Head(agents))
             m2 == [i \in DOMAIN m |->
                      IF m[i].agent = Head(agents) /\ value # <<>>
                      THEN IF key_lower = "allow"
                           THEN [m[i] EXCEPT !.rules.allows = Append(@, value)]
                           ELSE [m[i] EXCEPT !.rules.disallows = Append(@, value)]
                      ELSE m[i]]
         IN  add_pattern(m2, Tail(agents), key_lower, value)

\* lines 100-102: one crawl-delay line applied to every agent of the group
RECURSIVE set_delay(_, _, _)
set_delay(rules_map, agents, delay) ==
    IF agents = <<>> THEN rules_map
    ELSE LET m == setdefault(rules_map, Head(agents))
             m2 == [i \in DOMAIN m |->
                      IF m[i].agent = Head(agents)
                      THEN [m[i] EXCEPT !.rules.crawl_delay = delay]
                      ELSE m[i]]
         IN  set_delay(m2, Tail(agents), delay)

ParseStart == [rules_map |-> <<>>, current_agents |-> <<>>, last_key |-> "<None>"]

\* the body of the loop of lines 66-104 for one line
parse_line(st, line) ==
    IF ~line.colon THEN st
    ELSE LET key_lower == key_lower_of(line.key)
             value == line.value
         IN  IF key_lower = "user-agent"
             THEN [rules_map |-> setdefault(st.rules_map, value),
                   current_agents |-> IF st.last_key = "user-agent"
                                      THEN Append(st.current_agents, value)
                                      ELSE <<value>>,
                   last_key |-> key_lower]
             ELSE IF key_lower \in {"allow", "disallow"}
             THEN IF st.current_agents = <<>> THEN st
                  ELSE [st EXCEPT
                          !.rules_map = add_pattern(@, st.current_agents, key_lower, value),
                          !.last_key = key_lower]
             ELSE IF key_lower = "crawl-delay"
             THEN IF st.current_agents = <<>> THEN st
                  ELSE IF float_of(value) = None THEN st
                  ELSE [st EXCEPT
                          !.rules_map = set_delay(@, st.current_agents, float_of(value)),
                          !.last_key = key_lower]
             ELSE [st EXCEPT !.last_key = key_lower]

RECURSIVE parse_lines(_, _)
parse_lines(st, lines) ==
    IF lines = <<>> THEN st ELSE parse_lines(parse_line(st, Head(lines)), Tail(lines))

star_group_comes_first(rules_map) ==
    LET ours == {i \in DOMAIN rules_map : lower(rules_map[i].agent) = lower(user_agent)}
    IN  IF map_has(rules_map, <<"*">>) THEN map_get(rules_map, <<"*">>)
        ELSE IF ours # {} THEN rules_map[SetMin(ours)].rules
        ELSE EmptyRules

\* lines 106-111: the group of our user agent, else the "*" group, else empty rules
select_rules(rules_map) ==
    LET ours == {i \in DOMAIN rules_map : lower(rules_map[i].agent) = lower(user_agent)}
    IN  IF ours # {} THEN rules_map[SetMin(ours)].rules
        ELSE IF map_has(rules_map, <<"*">>) THEN map_get(rules_map, <<"*">>)
        ELSE EmptyRules

parse_robots(content) == select_rules(parse_lines(ParseStart, content).rules_map)

Line(key, value) == [colon |-> TRUE, key |-> key, value |-> value]

(***************************************************************************)
(* The robots documents the origins of the model may serve.                *)
(***************************************************************************)
DocForbidAll == <<Line("User-agent", <<"*">>), Line("Disallow", <<"/">>)>>

\* its crawl delay is negative
DocAllowX == <<Line("User-agent", <<"*">>), Line("Disallow", <<"/">>),
               Line("Allow", <<"/", "x">>), Line("Crawl-delay", <<"-", "1">>)>>

DocDelay == <<Line("User-Agent", <<"s", "e", "o">>), Line("Crawl-delay", <<"2">>),
              Line("User-agent", <<"*">>), Line("Disallow", <<"/">>)>>

RobotsDocuments == {DocForbidAll, DocAllowX, DocDelay}

(***************************************************************************)
(* The web: what a request may return.                                     *)
(***************************************************************************)
\* a page body, as far as the crawler reads it, is the sequence of the links
\* of its <a href>; a web gives every URL its body
WebStar ==
    [u \in URLs |-> IF u = U1 THEN <<U2, U4, U3, U2>> ELSE IF u = U2 THEN <<U1>> ELSE <<>>]

WebChain ==
    [u \in URLs |-> IF u = U1 THEN <<U3>> ELSE IF u = U3 THEN <<U2, U4>> ELSE <<U2, U1>>]

WebLeaf == [u \in URLs |-> <<>>]

\* the second href of the only page with links is malformed
WebBroken == [u \in URLs |-> IF u = U3 THEN <<U2, BadLink, U1>> ELSE <<>>]

ErrorKinds == {"status"}

\* what the crawler may be given to crawl: its seed list and the web
Sites == {[seed_urls |-> <<U1, U1>>, web |-> WebStar],
          [seed_urls |-> <<U3, U1>>, web |-> WebChain],
          [seed_urls |-> <<U3>>, web |-> WebBroken]}

\* the largest crawl delay a document of the model declares
DelayCap ==
    SetMax({parse_robots(d).crawl_delay[1] :
               d \in {e \in RobotsDocuments : parse_robots(e).crawl_delay # None}}, 0)

(***************************************************************************)
(* State                                                                   *)
(***************************************************************************)
VARIABLES
    \* Crawler.__init__
    seed_urls, max_pages, max_retries, same_domain_only,
    visited, enqueued, pages_crawled, stop_event, fetch_semaphore,
    \* RobotsManager.__init__: the dicts; a lock is the sequence of the tasks
    \* that hold (its head) or await it, and next_allowed[o] is the number of
    \* ticks from now to the stored instant (0 when it has passed)
    rules, fetch_locks, delay_locks, next_allowed,
    \* Crawler.crawl: its locals and its position; log_task is the state of
    \* the task that runs _log_speed_periodically
    queue, unfinished_tasks, results, driver, seed_index, session_open, log_task,
    \* Crawler.worker, one record per task: its position pc, its locals url
    \* and html and the links still to enqueue, the locals attempt and
    \* last_error of fetch and the sleeps fetch has made, the ticks left of
    \* the sleep it is in, and whether a cancellation is pending
    worker,
    \* observations: what the consumer was given, the robots.txt requests
    \* sent to each origin and whether one failed, the ticks since the last
    \* page request to each origin and since the last return of a
    \* wait_for_crawl_delay call that took the lock of the origin (both
    \* counted up to DelayCap)
    emitted, robots_requests, robots_failed, since_get, since_return,
    \* observations: the URLs whose fetch has raised, whether the consumer
    \* has closed the generator at a yield, and the times it has closed it
    \* after crawl() had ended (counted up to MaxCloses)
    raised_urls, closed, reclosed,
    \* the web that is crawled
    web,
    \* a call of a pure function made on its own: its arguments and result
    call,
    \* Elasticsearch: whether the two indices exist, the documents of the
    \* page index by id (each its _source and _version), the click-log index
    indices, documents, click_events,
    \* search_api: the track_click requests (position, url, and while the
    \* request runs the now_ms it has read),
    \* the clock, the global decay_task (state, ticks left of its sleep, the
    \* now_ms and the snapshot of the sweep it is in), the application state
    calls, clock, decay_task, app,
    \* observations: the runs of the startup handler, the decay tasks
    \* created, the sweeps that returned and that raised, the indexer calls,
    \* the ids a sweep or the indexer has written
    startups, tasks_created, sweeps, sweep_failures, index_ops, touched

\* the search service and its store
store_vars == <<indices, documents, click_events, calls, clock, decay_task, app,
                startups, tasks_created, sweeps, sweep_failures, index_ops, touched>>

\* what no step of a crawl changes
config_vars == <<seed_urls, max_pages, max_retries, same_domain_only, web, call, store_vars>>

crawler_vars == <<config_vars, visited, enqueued, pages_crawled, stop_event, fetch_semaphore>>

robots_vars == <<rules, fetch_locks, delay_locks, next_allowed>>

crawl_vars == <<queue, unfinished_tasks, results, driver, seed_index, session_open, log_task>>

observed_vars ==
    <<emitted, robots_requests, robots_failed, since_get, since_return, raised_urls,
      closed, reclosed>>

vars == <<crawler_vars, robots_vars, crawl_vars, worker, observed_vars>>

\* the crawler: what no step of the search service changes
crawl_state == <<seed_urls, max_pages, max_retries, same_domain_only, web, call,
                 visited, enqueued, pages_crawled, stop_event, fetch_semaphore,
                 robots_vars, crawl_vars, worker, observed_vars>>

NoUrl == [scheme |-> "", netloc |-> "", path |-> <<>>]

NoError == [attempt |-> 0, kind |-> "none"]

\* a worker at `url = await queue.get()` (line 143); requests counts the
\* page requests the fetch call it is in has sent
IdleWorker == [pc |-> "get", url |-> NoUrl, html |-> <<>>, links |-> <<>>,
               attempt |-> 0, last_error |-> NoError, sleeps |-> <<>>, requests |-> 0,
               timer |-> 0, cancelled |-> FALSE]

\* no pure function is being called on its own
NoCall == [fn |-> "none"]

\* self.concurrency = max(1, concurrency): one worker task per slot
concurrency == Cardinality(Workers)

\* the state after Crawler(seed_urls=site.seed_urls, max_pages=pages,
\* max_retries=retries, same_domain_only=domain_only, ...) has been
\* constructed and before crawl() runs
ConstructedWith(site, pages, retries, domain_only) ==
    /\ seed_urls = site.seed_urls
    /\ web = site.web
    /\ max_pages = pages
    /\ max_retries = retries
    /\ same_domain_only = domain_only
    /\ visited = {}
    /\ enqueued = {}
    /\ pages_crawled = 0
    /\ stop_event = FALSE
    /\ fetch_semaphore = concurrency
    /\ rules = <<>>
    /\ fetch_locks = <<>>
    /\ delay_locks = <<>>
    /\ next_allowed = <<>>
    /\ queue = <<>>
    /\ unfinished_tasks = 0
    /\ results = <<>>
    /\ driver = "seed"
    /\ seed_index = 1
    /\ session_open = FALSE
    /\ log_task = "none"
    /\ worker = [w \in Workers |-> [IdleWorker EXCEPT !.pc = "new"]]
    /\ emitted = <<>>
    /\ robots_requests = [o \in Origins |-> 0]
    /\ robots_failed = [o \in Origins |-> FALSE]
    /\ since_get = [o \in Origins |-> DelayCap]
    /\ since_return = [o \in Origins |-> DelayCap]
    /\ raised_urls = {}
    /\ closed = FALSE
    /\ reclosed = 0

\* the same with same_domain_only left at its default, the configured value
Constructed(site, pages, retries) ==
    ConstructedWith(site, pages, retries, CRAWL_SAME_DOMAIN_ONLY)

\* ranking.current_time_ms() when the service process starts, in ticks: the
\* time since the epoch is positive, so no now_ms the service reads is 0
Epoch == 1

\* the track_click requests, numbered as they come
CallIds == 1..MaxCalls

\* a track_click request that has not been made
NewCall == [pc |-> "new", url |-> NoUrl, now_ms |-> 0]

\* no decay task: the global decay_task is None
NoTask == [state |-> "none", timer |-> 0, now_ms |-> 0, pending |-> <<>>]

\* the service process before its startup, on an empty Elasticsearch
ServiceNew ==
    /\ indices = FALSE
    /\ documents = <<>>
    /\ click_events = {}
    /\ calls = [c \in CallIds |-> NewCall]
    /\ clock = Epoch
    /\ decay_task = NoTask
    /\ app = "new"
    /\ startups = 0
    /\ tasks_created = 0
    /\ sweeps = 0
    /\ sweep_failures = 0
    /\ index_ops = 0
    /\ touched = {}

Init ==
    /\ \E site \in Sites, pages \in {0, 1, MaxPages}, retries \in {0, 1, MaxRetries} :
          Constructed(site, pages, retries)
    /\ call = NoCall
    /\ ServiceNew

(***************************************************************************)
(* dicts and locks                                                         *)
(***************************************************************************)
\* d[k] = v
Put(d, k, v) == [x \in DOMAIN d \cup {k} |-> IF x = k THEN v ELSE d[x]]

\* d.get(k, default)
Get(d, k, default) == IF k \in DOMAIN d THEN d[k] ELSE default

lock_always_new(lock_map, key) == Put(lock_map, key, <<>>)

\* RobotsManager._get_lock: the lock map after the call
get_lock(lock_map, key) ==
    IF key \notin DOMAIN lock_map THEN Put(lock_map, key, <<>>) ELSE lock_map

\* Lock.acquire: the caller holds the lock at once when nobody holds or awaits it
acquire(lock_map, key, w) == [lock_map EXCEPT ![key] = Append(@, w)]

holds(lock_map, key, w) ==
    /\ key \in DOMAIN lock_map
    /\ lock_map[key] # <<>>
    /\ Head(lock_map[key]) = w

\* Lock.release, and a cancelled acquire: the lock passes to the first waiter
release(lock_map, key, w) ==
    [lock_map EXCEPT ![key] = SelectSeq(@, LAMBDA x : x # w)]

(***************************************************************************)
(* The frontier (Crawler._mark_enqueued, _mark_visited, _increment_pages). *)
(* url_lock and pages_lock are never held across a suspension, so each of  *)
(* the three runs as one step.                                             *)
(***************************************************************************)
enqueues_without_enqueued_check(u) == ~(u \in visited \/ stop_event)

enqueues_again_after_failure(u) ==
    ~(u \in visited \/ (u \in enqueued /\ u \notin raised_urls) \/ stop_event)

\* _mark_enqueued: whether it returns True (and then adds u to enqueued)
mark_enqueued(u) == ~(u \in visited \/ u \in enqueued \/ stop_event)

visited_is_overwritten(u) == {u}

\* _mark_visited: the set visited after the call
mark_visited(u) == visited \cup {u}

cap_off_by_one == pages_crawled > max_pages

\* _increment_pages, line 111: whether it returns None
cap_reached == pages_crawled >= max_pages

compares_the_scheme(base_url, new_url) ==
    IF ~same_domain_only THEN TRUE ELSE base_url.scheme = new_url.scheme

\* Crawler.same_domain
same_domain(base_url, new_url) ==
    IF ~same_domain_only THEN TRUE ELSE base_url.netloc = new_url.netloc

\* normalize_url, lines 64-65: urljoin or urlparse raises ValueError
raises_value_error(link) == link = BadLink

\* Crawler.extract_links, a generator: the links of the body that
\* normalize_url and same_domain keep, in document order (the bodies hold
\* normalized URLs), up to the first href on which normalize_url raises.  The
\* exception leaves the loop of lines 169-171 after the links before it were
\* enqueued, is logged by the handler of line 174, and the URL is
\* acknowledged by the finally clause as it is when the loop ends.
extract_links(body, base_url) ==
    LET bad == {i \in DOMAIN body : raises_value_error(body[i])}
        yielded == IF bad = {} THEN body ELSE SubSeq(body, 1, SetMin(bad) - 1)
    IN  SelectSeq(yielded, LAMBDA l : same_domain(base_url, l))

allows_everything(rs, u) == TRUE

\* RobotsManager.is_allowed, on the rules dict rs
is_allowed(rs, u) == rules_is_allowed(Get(rs, domain_key(u), EmptyRules), path_of(u))

\* rules.crawl_delay or 0 (wait_for_crawl_delay, lines 149-150)
crawl_delay_of(rs, u) ==
    LET r == Get(rs, domain_key(u), EmptyRules)
    IN  IF r.crawl_delay = None THEN 0 ELSE r.crawl_delay[1]

(***************************************************************************)
(* The event loop.  One task runs at a time and keeps running until it is  *)
(* suspended: while a task is between two suspensions no other task takes  *)
(* a step, and no time passes.                                             *)
(***************************************************************************)
\* the worker is running: it is past a suspension and has not reached the next
Running(w) ==
    \/ worker[w].pc \in {"ensure", "blocked", "delay", "raised", "incr", "visit",
                         "publish", "links"}
    \/ worker[w].pc = "fetch" /\ (worker[w].attempt > max_retries \/ fetch_semaphore > 0)

DriverRunning == driver \in {"seed", "finally"}

WorkerTurn(w) == ~DriverRunning /\ \A v \in Workers \ {w} : ~Running(v)

DriverTurn == \A w \in Workers : ~Running(w)

(***************************************************************************)
(* Crawler.worker                                                          *)
(***************************************************************************)
\* `continue`, or the end of the body: finally queue.task_done(), then the
\* next `await queue.get()`
NextUrl(w) == [IdleWorker EXCEPT !.cancelled = worker[w].cancelled]

\* lines 152-157 after ensure_rules has returned with the rules dict rs
AfterEnsure(w, rs) ==
    [worker[w] EXCEPT !.pc = IF is_allowed(rs, worker[w].url) THEN "delay" ELSE "blocked"]

stop_is_never_seen == FALSE

\* line 148: self.stop_event.is_set(), as the worker reads it after a dequeue
stop_is_set == stop_event

\* lines 143-149: a URL is dequeued; with stop set it is only acknowledged
WorkerGet(w) ==
    /\ WorkerTurn(w)
    /\ worker[w].pc = "get"
    /\ ~worker[w].cancelled
    /\ queue # <<>>
    /\ queue' = Tail(queue)
    /\ IF stop_is_set
       THEN /\ unfinished_tasks' = unfinished_tasks - 1
            /\ worker' = worker
       ELSE /\ unfinished_tasks' = unfinished_tasks
            /\ worker' = [worker EXCEPT ![w] = [@ EXCEPT !.pc = "ensure", !.url = Head(queue)]]
    /\ UNCHANGED <<crawler_vars, robots_vars, results, driver, seed_index, session_open, log_task,
                   observed_vars>>

\* lines 126-128 reached with the fetch lock held: the robots.txt request is sent
SendRobotsRequest(w, locks) ==
    LET domain == domain_key(worker[w].url)
    IN  /\ fetch_locks' = locks
        /\ robots_requests' = [robots_requests EXCEPT ![domain] = @ + 1]
        /\ worker' = [worker EXCEPT ![w] = [@ EXCEPT !.pc = "robots_get"]]
        /\ UNCHANGED <<rules, robots_failed>>

\* ensure_rules, lines 114-126: cached rules are returned, else the lock of
\* the origin is taken (or awaited) and the request sent
EnsureRules(w) ==
    LET domain == domain_key(worker[w].url)
        locks == get_lock(fetch_locks, domain)
    IN  /\ WorkerTurn(w)
        /\ worker[w].pc = "ensure"
        /\ IF domain \in DOMAIN rules
           THEN /\ worker' = [worker EXCEPT ![w] = AfterEnsure(w, rules)]
                /\ UNCHANGED <<rules, fetch_locks, robots_requests, robots_failed>>
           ELSE IF locks[domain] = <<>>
           THEN SendRobotsRequest(w, acquire(locks, domain, w))
           ELSE /\ fetch_locks' = acquire(locks, domain, w)
                /\ worker' = [worker EXCEPT ![w] = [@ EXCEPT !.pc = "robots_lock"]]
                /\ UNCHANGED <<rules, robots_requests, robots_failed>>
        /\ UNCHANGED <<crawler_vars, delay_locks, next_allowed, crawl_vars,
                       emitted, since_get, since_return, raised_urls, closed, reclosed>>

\* ensure_rules, lines 119-121: a waiter is given the lock and checks again
RobotsLockAcquired(w) ==
    LET domain == domain_key(worker[w].url)
    IN  /\ WorkerTurn(w)
        /\ worker[w].pc = "robots_lock"
        /\ ~worker[w].cancelled
        /\ holds(fetch_locks, domain, w)
        /\ IF domain \in DOMAIN rules
           THEN /\ fetch_locks' = release(fetch_locks, domain, w)
                /\ worker' = [worker EXCEPT ![w] = AfterEnsure(w, rules)]
                /\ UNCHANGED <<rules, robots_requests, robots_failed>>
           ELSE SendRobotsRequest(w, fetch_locks)
        /\ UNCHANGED <<crawler_vars, delay_locks, next_allowed, crawl_vars,
                       emitted, since_get, since_return, raised_urls, closed, reclosed>>

failure_is_not_cached(rs, domain) == rs

\* ensure_rules, lines 138-139: after a failed request empty rules are stored
rules_after_failure(rs, domain) == Put(rs, domain, EmptyRules)

\* ensure_rules, lines 126-139, when the request ends: status 200 with a
\* document, another status, or an exception
RobotsResponse(w) ==
    LET domain == domain_key(worker[w].url)
    IN  /\ WorkerTurn(w)
        /\ worker[w].pc = "robots_get"
        /\ ~worker[w].cancelled
        /\ \/ \E content \in RobotsDocuments :
              /\ rules' = Put(rules, domain, parse_robots(content))
              /\ UNCHANGED robots_failed
           \/ /\ rules' = rules_after_failure(rules, domain)
              /\ robots_failed' = [robots_failed EXCEPT ![domain] = TRUE]
        /\ fetch_locks' = release(fetch_locks, domain, w)
        /\ worker' = [worker EXCEPT ![w] = AfterEnsure(w, rules')]
        /\ UNCHANGED <<crawler_vars, delay_locks, next_allowed, crawl_vars,
                       emitted, robots_requests, since_get, since_return, raised_urls,
                       closed, reclosed>>

\* lines 153-155: the URL is denied: _mark_visited, continue
MarkBlocked(w) ==
    /\ WorkerTurn(w)
    /\ worker[w].pc = "blocked"
    /\ visited' = mark_visited(worker[w].url)
    /\ unfinished_tasks' = unfinished_tasks - 1
    /\ worker' = [worker EXCEPT ![w] = NextUrl(w)]
    /\ UNCHANGED <<config_vars, enqueued, pages_crawled, stop_event, fetch_semaphore,
                   robots_vars, queue, results, driver, seed_index, session_open, log_task,
                   observed_vars>>

\* fetch is entered: attempt = 1 is the first value of the range
EnterFetch(w) == [worker[w] EXCEPT !.pc = "fetch", !.attempt = 1, !.last_error = NoError,
                                   !.sleeps = <<>>, !.requests = 0, !.timer = 0]

\* wait_for_crawl_delay, lines 156-165, with the delay lock held: sleep until
\* next_allowed, or move it at once
next_allowed_is_not_moved(domain, delay) == next_allowed

\* wait_for_crawl_delay, line 165: next_allowed[domain] = now + delay
next_allowed_after(domain, delay) == Put(next_allowed, domain, delay)

\* wait_for_crawl_delay, line 165 and the end of `async with lock`: the call
\* returns and fetch is entered
ReturnFromWait(w, locks) ==
    LET domain == domain_key(worker[w].url)
    IN  /\ next_allowed' = next_allowed_after(domain, crawl_delay_of(rules, worker[w].url))
        /\ delay_locks' = release(locks, domain, w)
        /\ since_return' = [since_return EXCEPT ![domain] = 0]
        /\ worker' = [worker EXCEPT ![w] = EnterFetch(w)]

PaceUnderLock(w, locks) ==
    LET domain == domain_key(worker[w].url)
        wait_time == Get(next_allowed, domain, 0)
    IN  IF wait_time > 0
        THEN /\ delay_locks' = locks
             /\ worker' = [worker EXCEPT ![w] = [@ EXCEPT !.pc = "delay_sleep",
                                                          !.timer = wait_time]]
             /\ UNCHANGED <<next_allowed, since_return>>
        ELSE ReturnFromWait(w, locks)

\* wait_for_crawl_delay, lines 148-155, then fetch
WaitForCrawlDelay(w) ==
    LET domain == domain_key(worker[w].url)
        delay == crawl_delay_of(rules, worker[w].url)
        locks == get_lock(delay_locks, domain)
    IN  /\ WorkerTurn(w)
        /\ worker[w].pc = "delay"
        /\ IF delay <= 0
           THEN /\ worker' = [worker EXCEPT ![w] = EnterFetch(w)]
                /\ UNCHANGED <<delay_locks, next_allowed, since_return>>
           ELSE IF locks[domain] = <<>>
           THEN PaceUnderLock(w, acquire(locks, domain, w))
           ELSE /\ delay_locks' = acquire(locks, domain, w)
                /\ worker' = [worker EXCEPT ![w] = [@ EXCEPT !.pc = "delay_lock"]]
                /\ UNCHANGED <<next_allowed, since_return>>
        /\ UNCHANGED <<crawler_vars, rules, fetch_locks, crawl_vars, emitted, robots_requests,
                       robots_failed, since_get, raised_urls, closed, reclosed>>

\* wait_for_crawl_delay, line 155: a waiter is given the delay lock
DelayLockAcquired(w) ==
    /\ WorkerTurn(w)
    /\ worker[w].pc = "delay_lock"
    /\ ~worker[w].cancelled
    /\ holds(delay_locks, domain_key(worker[w].url), w)
    /\ PaceUnderLock(w, delay_locks)
    /\ UNCHANGED <<crawler_vars, rules, fetch_locks, crawl_vars, emitted, robots_requests,
                   robots_failed, since_get, raised_urls, closed, reclosed>>

\* wait_for_crawl_delay, lines 163-165: the sleep is over
DelayWake(w) ==
    LET domain == domain_key(worker[w].url)
    IN  /\ WorkerTurn(w)
        /\ worker[w].pc = "delay_sleep"
        /\ ~worker[w].cancelled
        /\ worker[w].timer = 0
        /\ ReturnFromWait(w, delay_locks)
        /\ UNCHANGED <<crawler_vars, rules, fetch_locks, crawl_vars, emitted, robots_requests,
                       robots_failed, since_get, raised_urls, closed, reclosed>>

\* fetch, lines 79-85 and 96: the next attempt takes a slot of the semaphore
\* and sends the request; an exhausted range raises instead
FetchAttempt(w) ==
    LET domain == domain_key(worker[w].url)
    IN  /\ WorkerTurn(w)
        /\ worker[w].pc = "fetch"
        /\ IF worker[w].attempt > max_retries
           THEN /\ worker' = [worker EXCEPT ![w] = [@ EXCEPT !.pc = "raised"]]
                /\ UNCHANGED <<fetch_semaphore, since_get>>
           ELSE /\ fetch_semaphore > 0
                /\ fetch_semaphore' = fetch_semaphore - 1
                /\ since_get' = [since_get EXCEPT ![domain] = 0]
                /\ worker' = [worker EXCEPT ![w] = [@ EXCEPT !.pc = "fetch_get",
                                                             !.requests = @ + 1]]
        /\ UNCHANGED <<config_vars, visited, enqueued, pages_crawled, stop_event,
                       robots_vars, crawl_vars, emitted, robots_requests, robots_failed,
                       since_return, raised_urls, closed, reclosed>>

sleeps_after_final_attempt(w, kind) ==
    [worker[w] EXCEPT !.last_error = [attempt |-> worker[w].attempt, kind |-> kind],
                      !.pc = IF worker[w].attempt <= max_retries THEN "backoff" ELSE "raised",
                      !.timer = retry_backoff * worker[w].attempt,
                      !.sleeps = Append(@, retry_backoff * worker[w].attempt)]

\* fetch, lines 90-96: an attempt has failed
AttemptFailed(w, kind) ==
    LET failed == [worker[w] EXCEPT
                      !.last_error = [attempt |-> worker[w].attempt, kind |-> kind]]
    IN  IF worker[w].attempt < max_retries
        THEN [failed EXCEPT !.pc = "backoff",
                            !.timer = retry_backoff * worker[w].attempt,
                            !.sleeps = Append(@, retry_backoff * worker[w].attempt)]
        ELSE [failed EXCEPT !.pc = "raised"]

slot_kept_while_backing_off(pc_after) ==
    IF pc_after = "backoff" THEN fetch_semaphore ELSE fetch_semaphore + 1

\* fetch, line 81: `async with self.fetch_semaphore` is left, by the return
\* or by the exception, before the handler of line 90 runs: the slot is given
\* back wherever the call goes next (pc_after)
semaphore_release(pc_after) == fetch_semaphore + 1

\* fetch, lines 85-94, when the request ends: a 2xx body is returned, any
\* other status or a network error is an exception
FetchResponse(w) ==
    /\ WorkerTurn(w)
    /\ worker[w].pc = "fetch_get"
    /\ ~worker[w].cancelled
    /\ \/ worker' = [worker EXCEPT ![w] = [@ EXCEPT !.pc = "incr", !.html = web[worker[w].url]]]
       \/ \E kind \in ErrorKinds :
             worker' = [worker EXCEPT ![w] = AttemptFailed(w, kind)]
    /\ fetch_semaphore' = semaphore_release(worker'[w].pc)
    /\ UNCHANGED <<config_vars, visited, enqueued, pages_crawled, stop_event,
                   robots_vars, crawl_vars, observed_vars>>

\* fetch, lines 94 and 79: the backoff sleep is over, the loop goes on
BackoffWake(w) ==
    /\ WorkerTurn(w)
    /\ worker[w].pc = "backoff"
    /\ ~worker[w].cancelled
    /\ worker[w].timer = 0
    /\ worker' = [worker EXCEPT ![w] = [@ EXCEPT !.pc = "fetch", !.attempt = @ + 1]]
    /\ UNCHANGED <<crawler_vars, robots_vars, crawl_vars, observed_vars>>

\* lines 174-177: fetch has raised: the error is logged, the URL acknowledged
FetchRaised(w) ==
    /\ WorkerTurn(w)
    /\ worker[w].pc = "raised"
    /\ unfinished_tasks' = unfinished_tasks - 1
    /\ raised_urls' = raised_urls \cup {worker[w].url}
    /\ worker' = [worker EXCEPT ![w] = NextUrl(w)]
    /\ UNCHANGED <<crawler_vars, robots_vars, queue, results, driver, seed_index,
                   session_open, log_task, emitted, robots_requests, robots_failed,
                   since_get, since_return,
                   closed, reclosed>>

\* lines 160-162: _increment_pages, and `continue` when the cap is reached
IncrementPages(w) ==
    /\ WorkerTurn(w)
    /\ worker[w].pc = "incr"
    /\ IF cap_reached
       THEN /\ stop_event' = TRUE
            /\ pages_crawled' = pages_crawled
            /\ unfinished_tasks' = unfinished_tasks - 1
            /\ worker' = [worker EXCEPT ![w] = NextUrl(w)]
       ELSE /\ pages_crawled' = pages_crawled + 1
            /\ stop_event' = (stop_event \/ pages_crawled + 1 >= max_pages)
            /\ unfinished_tasks' = unfinished_tasks
            /\ worker' = [worker EXCEPT ![w] = [@ EXCEPT !.pc = "visit"]]
    /\ UNCHANGED <<config_vars, visited, enqueued, fetch_semaphore, robots_vars,
                   queue, results, driver, seed_index, session_open, log_task, observed_vars>>

\* line 164
MarkVisited(w) ==
    /\ WorkerTurn(w)
    /\ worker[w].pc = "visit"
    /\ visited' = mark_visited(worker[w].url)
    /\ worker' = [worker EXCEPT ![w] = [@ EXCEPT !.pc = "publish"]]
    /\ UNCHANGED <<config_vars, enqueued, pages_crawled, stop_event, fetch_semaphore,
                   robots_vars, crawl_vars, observed_vars>>

\* line 183: results = asyncio.Queue(), whose maxsize is 0: "if maxsize is
\* less than or equal to zero, the queue size is infinite"
results_maxsize == 0

\* lines 165-169: the result is put on the results queue (put waits while
\* the queue is full, which a queue without maxsize never is); unless stop
\* is set the links of the page are extracted
Publish(w) ==
    LET found == IF stop_event THEN <<>> ELSE extract_links(worker[w].html, worker[w].url)
    IN  /\ WorkerTurn(w)
        /\ worker[w].pc = "publish"
        /\ results_maxsize <= 0 \/ Len(results) < results_maxsize
        /\ results' = Append(results, [url |-> worker[w].url, body |-> worker[w].html])
        /\ IF found = <<>>
           THEN /\ unfinished_tasks' = unfinished_tasks - 1
                /\ worker' = [worker EXCEPT ![w] = NextUrl(w)]
           ELSE /\ unfinished_tasks' = unfinished_tasks
                /\ worker' = [worker EXCEPT ![w] = [@ EXCEPT !.pc = "links", !.links = found]]
        /\ UNCHANGED <<crawler_vars, robots_vars, queue, driver, seed_index, session_open, log_task,
                       observed_vars>>

\* lines 169-171 for one link: _mark_enqueued and, when it says so, queue.put
\* (unbounded: put never waits); after the last link the URL is acknowledged
EnqueueLink(w) ==
    LET link == Head(worker[w].links)
        fresh == mark_enqueued(link)
        last == Len(worker[w].links) = 1
    IN  /\ WorkerTurn(w)
        /\ worker[w].pc = "links"
        /\ enqueued' = IF fresh THEN enqueued \cup {link} ELSE enqueued
        /\ queue' = IF fresh THEN Append(queue, link) ELSE queue
        /\ unfinished_tasks' = unfinished_tasks + (IF fresh THEN 1 ELSE 0)
                                                - (IF last THEN 1 ELSE 0)
        /\ worker' = [worker EXCEPT ![w] =
                         IF last THEN NextUrl(w) ELSE [@ EXCEPT !.links = Tail(@)]]
        /\ UNCHANGED <<config_vars, visited, pages_crawled, stop_event, fetch_semaphore,
                       robots_vars, results, driver, seed_index, session_open, log_task,
                       observed_vars>>

\* the awaits at which a worker is suspended
SuspendedAt == {"get", "robots_lock", "robots_get", "delay_lock", "delay_sleep",
                "fetch_get", "backoff"}

cancel_in_get_acknowledges(at) == 1

\* the calls of queue.task_done a cancelled worker makes: none when it is
\* cancelled in queue.get(), outside the try of line 147 (lines 144-145),
\* one by the finally clause otherwise (lines 172-177)
task_done_on_cancel(at) == IF at = "get" THEN 0 ELSE 1

\* lines 144-145 and 172-177: CancelledError is raised at the await the worker
\* is suspended in; `async with` gives back the lock or slot it holds or
\* awaits; a URL in hand is acknowledged
WorkerCancelled(w) ==
    LET domain == domain_key(worker[w].url)
        at == worker[w].pc
    IN  /\ WorkerTurn(w)
        /\ worker[w].cancelled
        /\ at \in SuspendedAt
        /\ unfinished_tasks' = unfinished_tasks - task_done_on_cancel(at)
        /\ fetch_locks' = IF at \in {"robots_lock", "robots_get"}
                          THEN release(fetch_locks, domain, w) ELSE fetch_locks
        /\ delay_locks' = IF at \in {"delay_lock", "delay_sleep"}
                          THEN release(delay_locks, domain, w) ELSE delay_locks
        /\ fetch_semaphore' = IF at = "fetch_get" THEN fetch_semaphore + 1 ELSE fetch_semaphore
        /\ worker' = [worker EXCEPT ![w] = [IdleWorker EXCEPT !.pc = "exit", !.cancelled = TRUE]]
        /\ UNCHANGED <<config_vars, visited, enqueued, pages_crawled, stop_event,
                       rules, next_allowed, queue, results, driver, seed_index,
                       session_open, log_task, observed_vars>>

(***************************************************************************)
(* Crawler.crawl                                                           *)
(***************************************************************************)
stops_when_no_result_waits == results = <<>>

stops_when_queue_is_joined == unfinished_tasks = 0

\* line 203: queue_join.done() and results.empty()
crawl_finished == unfinished_tasks = 0 /\ results = <<>>

\* lines 185-187, one seed
Seed ==
    LET seed == seed_urls[seed_index]
        fresh == mark_enqueued(seed)
    IN  /\ DriverTurn
        /\ driver = "seed"
        /\ seed_index <= Len(seed_urls)
        /\ seed_index' = seed_index + 1
        /\ enqueued' = IF fresh THEN enqueued \cup {seed} ELSE enqueued
        /\ queue' = IF fresh THEN Append(queue, seed) ELSE queue
        /\ unfinished_tasks' = unfinished_tasks + (IF fresh THEN 1 ELSE 0)
        /\ UNCHANGED <<config_vars, visited, pages_crawled, stop_event, fetch_semaphore,
                       robots_vars, results, driver, session_open, log_task, worker, observed_vars>>

\* lines 189-200: the session is opened, the worker tasks are created
StartWorkers ==
    /\ DriverTurn
    /\ driver = "seed"
    /\ seed_index > Len(seed_urls)
    /\ session_open' = TRUE
    /\ worker' = [w \in Workers |-> IdleWorker]
    /\ log_task' = "sleeping"
    /\ driver' = "loop"
    /\ UNCHANGED <<crawler_vars, robots_vars, queue, unfinished_tasks, results, seed_index,
                   observed_vars>>

\* lines 207-211: a result is taken and yielded to the consumer
Yield ==
    /\ DriverTurn
    /\ driver = "loop"
    /\ results # <<>>
    /\ results' = Tail(results)
    /\ emitted' = Append(emitted, Head(results))
    /\ driver' = "yield"
    /\ UNCHANGED <<crawler_vars, robots_vars, queue, unfinished_tasks, seed_index,
                   session_open, log_task, worker, robots_requests, robots_failed,
                   since_get, since_return,
                   raised_urls, closed, reclosed>>

\* the consumer asks for the next item: the generator goes on at line 202
ConsumerNext ==
    /\ DriverTurn
    /\ driver = "yield"
    /\ driver' = "loop"
    /\ UNCHANGED <<crawler_vars, robots_vars, queue, unfinished_tasks, results, seed_index,
                   session_open, log_task, worker, observed_vars>>

\* the consumer stops iterating: the generator is closed at the yield of
\* line 211 and its finally clause runs
ConsumerClose ==
    /\ DriverTurn
    /\ driver = "yield"
    /\ driver' = "finally"
    /\ closed' = TRUE
    /\ UNCHANGED <<crawler_vars, robots_vars, queue, unfinished_tasks, results, seed_index,
                   session_open, log_task, worker, emitted, robots_requests, robots_failed,
                   since_get, since_return, raised_urls, reclosed>>

\* lines 203-204: queue.join() is done and no result is left
Break ==
    /\ DriverTurn
    /\ driver = "loop"
    /\ crawl_finished
    /\ driver' = "finally"
    /\ UNCHANGED <<crawler_vars, robots_vars, queue, unfinished_tasks, results, seed_index,
                   session_open, log_task, worker, observed_vars>>

\* lines 213-215: every worker is cancelled, then awaited
CancelWorkers ==
    /\ DriverTurn
    /\ driver = "finally"
    /\ worker' = [w \in Workers |-> [worker[w] EXCEPT !.cancelled = TRUE]]
    /\ driver' = "gather"
    /\ UNCHANGED <<crawler_vars, robots_vars, queue, unfinished_tasks, results, seed_index,
                   session_open, log_task, observed_vars>>

gather_does_not_wait == TRUE

\* line 215: asyncio.gather(*workers) returns when every worker task is done
workers_finished == \A w \in Workers : worker[w].pc = "exit"

\* lines 130-133: the ticker wakes from sleep(1) and logs; a wake that finds
\* stop_event unset changes nothing and sleeps again, the one that finds it
\* set ends the task.  The phase of the one-second sleep is free: the wake
\* may come at any moment after stop_event is set.
LogTaskEnds ==
    /\ DriverTurn
    /\ ~DriverRunning
    /\ log_task = "sleeping"
    /\ stop_event
    /\ log_task' = "finished"
    /\ UNCHANGED <<crawler_vars, robots_vars, queue, unfinished_tasks, results, driver,
                   seed_index, session_open, worker, observed_vars>>

\* lines 215-222: the workers have finished; queue_join is cancelled if it
\* is pending, the ticker is cancelled and awaited
GatherWorkers ==
    /\ DriverTurn
    /\ driver = "gather"
    /\ workers_finished
    /\ log_task' = IF log_task = "sleeping" THEN "cancelling" ELSE log_task
    /\ driver' = "log_gather"
    /\ UNCHANGED <<crawler_vars, robots_vars, queue, unfinished_tasks, results, seed_index,
                   session_open, worker, observed_vars>>

\* line 132: CancelledError is raised in the sleep of the ticker
LogTaskCancelled ==
    /\ DriverTurn
    /\ ~DriverRunning
    /\ log_task = "cancelling"
    /\ log_task' = "finished"
    /\ UNCHANGED <<crawler_vars, robots_vars, queue, unfinished_tasks, results, driver,
                   seed_index, session_open, worker, observed_vars>>

\* lines 222-224 and the end of `async with` of line 190: the ticker has
\* finished, the speed is logged a last time, the session is closed
Close ==
    /\ DriverTurn
    /\ driver = "log_gather"
    /\ log_task = "finished"
    /\ session_open' = FALSE
    /\ driver' = "done"
    /\ UNCHANGED <<crawler_vars, robots_vars, queue, unfinished_tasks, results, seed_index,
                   log_task, worker, observed_vars>>

\* the consumer closes the generator after crawl() has ended: nothing of the
\* body of crawl() runs again
CloseAgain ==
    /\ driver = "done"
    /\ reclosed < MaxCloses
    /\ reclosed' = reclosed + 1
    /\ UNCHANGED <<crawler_vars, robots_vars, crawl_vars, worker, emitted, robots_requests,
                   robots_failed, since_get, since_return, raised_urls, closed>>

(***************************************************************************)
(* Time, and the end of the suspensions                                    *)
(***************************************************************************)
\* the worker is suspended and what it awaits has happened
Ready(w) ==
    \/ worker[w].cancelled /\ worker[w].pc \in SuspendedAt
    \/ worker[w].pc = "get" /\ queue # <<>>
    \/ worker[w].pc = "robots_lock" /\ holds(fetch_locks, domain_key(worker[w].url), w)
    \/ worker[w].pc = "delay_lock" /\ holds(delay_locks, domain_key(worker[w].url), w)
    \/ worker[w].pc \in {"delay_sleep", "backoff"} /\ worker[w].timer = 0

DriverReady ==
    \/ driver = "loop" /\ (results # <<>> \/ unfinished_tasks = 0)
    \/ driver = "gather" /\ workers_finished
    \/ driver = "log_gather" /\ log_task = "finished"

\* one tick passes: every deadline comes one tick nearer
Tick ==
    /\ ~DriverRunning
    /\ ~DriverReady
    /\ log_task # "cancelling"
    /\ \A w \in Workers : ~Running(w) /\ ~Ready(w)
    /\ worker' = [w \in Workers |->
                    [worker[w] EXCEPT !.timer = IF @ > 0 THEN @ - 1 ELSE 0]]
    /\ next_allowed' = [o \in DOMAIN next_allowed |->
                          IF next_allowed[o] > 0 THEN next_allowed[o] - 1 ELSE 0]
    /\ since_get' = [o \in Origins |->
                       IF since_get[o] < DelayCap THEN since_get[o] + 1 ELSE DelayCap]
    /\ since_return' = [o \in Origins |->
                          IF since_return[o] < DelayCap THEN since_return[o] + 1 ELSE DelayCap]
    /\ <<worker, next_allowed, since_get, since_return>>'
          # <<worker, next_allowed, since_get, since_return>>
    /\ UNCHANGED <<crawler_vars, rules, fetch_locks, delay_locks, crawl_vars,
                   emitted, robots_requests, robots_failed, raised_urls, closed, reclosed>>

Next ==
    \/ \E w \in Workers :
          \/ WorkerGet(w)
          \/ EnsureRules(w)
          \/ RobotsLockAcquired(w)
          \/ RobotsResponse(w)
          \/ MarkBlocked(w)
          \/ WaitForCrawlDelay(w)
          \/ DelayLockAcquired(w)
          \/ DelayWake(w)
          \/ FetchAttempt(w)
          \/ FetchResponse(w)
          \/ BackoffWake(w)
          \/ FetchRaised(w)
          \/ IncrementPages(w)
          \/ MarkVisited(w)
          \/ Publish(w)
          \/ EnqueueLink(w)
          \/ WorkerCancelled(w)
    \/ Seed
    \/ StartWorkers
    \/ Yield
    \/ ConsumerNext
    \/ ConsumerClose
    \/ Break
    \/ CancelWorkers
    \/ LogTaskEnds
    \/ GatherWorkers
    \/ LogTaskCancelled
    \/ Close
    \/ CloseAgain
    \/ Tick

Spec == Init /\ [][Next]_vars

(***************************************************************************)
(* The crawl under fair scheduling: the event loop runs a task that can    *)
(* run, every request ends (ClientTimeout, line 189), a sleep ends, and    *)
(* the consumer asks for the next result or closes the generator.  The     *)
(* crawler retries once (max_retries = 2).                                 *)
(***************************************************************************)
FairInit ==
    /\ \E site \in Sites, pages \in {0, 1, MaxPages} : Constructed(site, pages, 2)
    /\ call = NoCall
    /\ ServiceNew

FairSpec == FairInit /\ [][Next]_vars /\ WF_vars(Next)

(***************************************************************************)
(* The crawl with same_domain_only given to the constructor, enabled or    *)
(* disabled, and a page cap above MaxPages, so that the links of more than *)
(* one page are extracted.  The crawler retries once.                       *)
(***************************************************************************)
DomainInit ==
    /\ \E site \in Sites, domain_only \in BOOLEAN :
          ConstructedWith(site, MaxPages + 1, 2, domain_only)
    /\ call = NoCall
    /\ ServiceNew

DomainSpec == DomainInit /\ [][Next]_vars

(***************************************************************************)
(* RobotsRules.is_allowed called on its own, on every path and every pair  *)
(* of pattern lists within the bounds.  _parse_robots stores a pattern     *)
(* only `if value` (line 91), so the patterns are not empty.               *)
(***************************************************************************)
PathChars == {"/", "a"}

\* "/" followed by up to n - 1 characters
RootedUpTo(n) == {<<"/">> \o t : t \in SeqsUpTo(PathChars, n - 1)}

RulePaths == RootedUpTo(MaxPathLen)

RulePatterns == RootedUpTo(MaxPatternLen)

RuleLists == SeqsUpTo(RulePatterns, MaxPatterns)

RulesInit ==
    /\ Constructed([seed_urls |-> <<U1>>, web |-> WebLeaf], 0, 0)
    /\ ServiceNew
    /\ \E allows \in RuleLists, disallows \in RuleLists, path \in RulePaths :
          call = [fn |-> "is_allowed",
                  rules |-> [allows |-> allows, disallows |-> disallows, crawl_delay |-> None],
                  path |-> path,
                  returned |-> <<>>]

\* rules.is_allowed(path) is called and returns
CallIsAllowed ==
    /\ call.fn = "is_allowed"
    /\ call.returned = <<>>
    /\ call' = [call EXCEPT !.returned = <<rules_is_allowed(call.rules, call.path)>>]
    /\ UNCHANGED <<seed_urls, max_pages, max_retries, same_domain_only, web,
                   visited, enqueued, pages_crawled, stop_event, fetch_semaphore,
                   robots_vars, crawl_vars, worker, observed_vars, store_vars>>

RulesNext == CallIsAllowed

RulesSpec == RulesInit /\ [][RulesNext]_vars

(***************************************************************************)
(* RobotsManager._parse_robots called on its own, on every document of up  *)
(* to MaxLines lines drawn from RobotsLines: user-agent lines for our      *)
(* agent (in another case than self.user_agent), for another crawler and   *)
(* for "*", rules with and without a value, crawl delays that parse and    *)
(* that do not, a key the parser does not know, and a line without colon.  *)
(***************************************************************************)
RobotsLines ==
    {Line("User-agent", <<"s", "e", "o">>), Line("USER-AGENT", <<"b", "o", "t">>),
     Line("User-agent", <<"*">>),
     Line("Allow", <<"/", "x">>), Line("Disallow", <<"/">>), Line("DISALLOW", <<>>),
     Line("Crawl-delay", <<"2">>), Line("Crawl-Delay", <<"x">>),
     Line("Sitemap", <<"s">>),
     [colon |-> FALSE, key |-> "", value |-> <<>>]}

ParseInit ==
    /\ Constructed([seed_urls |-> <<U1>>, web |-> WebLeaf], 0, 0)
    /\ ServiceNew
    /\ \E content \in SeqsUpTo(RobotsLines, MaxLines) :
          call = [fn |-> "_parse_robots", content |-> content, returned |-> <<>>]

\* self._parse_robots(content) is called and returns
CallParseRobots ==
    /\ call.fn = "_parse_robots"
    /\ call.returned = <<>>
    /\ call' = [call EXCEPT !.returned = <<parse_robots(call.content)>>]
    /\ UNCHANGED <<seed_urls, max_pages, max_retries, same_domain_only, web,
                   visited, enqueued, pages_crawled, stop_event, fetch_semaphore,
                   robots_vars, crawl_vars, worker, observed_vars, store_vars>>

ParseNext == CallParseRobots

ParseSpec == ParseInit /\ [][ParseNext]_vars

(***************************************************************************)
(* The search service (search_api.py) and the indexer (indexer.py) on one  *)
(* Elasticsearch store.  A tick of the clock is DECAY_JOB_INTERVAL_SECONDS *)
(* (1800 s, half an hour); now_ms is the clock in ticks.  Numbers that the  *)
(* code holds as floats are kept as exact fractions <<numerator,           *)
(* denominator>>.                                                          *)
(***************************************************************************)
StoreUrls == {U1, U2}

RECENT_CLICK_DECAY_MULTIPLIER == <<17, 20>>

\* RANKING_DECAY_PER_HOUR = 0.05, for a tick of half an hour
DecayPerTick == <<1, 40>>

\* the 0.7 of the score, and the 0.01 below which recent_clicks is floored
RecentWeight == <<7, 10>>

RecentFloor == <<1, 100>>

RECURSIVE Gcd(_, _)
Gcd(a, b) == IF b = 0 THEN a ELSE Gcd(b, a % b)

Abs(n) == IF n < 0 THEN 0 - n ELSE n

\* the fraction n/d in lowest terms, d > 0
Frac(n, d) ==
    LET g == Gcd(Abs(n), d)
    IN  IF n = 0 THEN <<0, 1>> ELSE <<n \div g, d \div g>>

FracOf(n) == <<n, 1>>

FracAdd(x, y) == Frac(x[1] * y[2] + y[1] * x[2], x[2] * y[2])

FracSub(x, y) == Frac(x[1] * y[2] - y[1] * x[2], x[2] * y[2])

FracMul(x, y) == Frac(x[1] * y[1], x[2] * y[2])

FracLess(x, y) == x[1] * y[2] < y[1] * x[2]

\* math.log(log_of) + rest: the logarithm is kept as its argument
Score(log_of, rest) == [log_of |-> log_of, rest |-> rest]

\* the float 0.0 as a score
ZeroScore == Score(1, FracOf(0))

\* ranking.compute_decay_hours, in ticks: 0 for a last click that is None or
\* 0, never negative
compute_decay_hours(last_clicked_at_ms, now_ms) ==
    IF last_clicked_at_ms = None \/ last_clicked_at_ms = <<0>> THEN 0
    ELSE IF now_ms - last_clicked_at_ms[1] > 0 THEN now_ms - last_clicked_at_ms[1] ELSE 0

\* ranking.compute_ranking_score
compute_ranking_score(clicks_total, recent_clicks, last_clicked_at_ms, now_ms) ==
    Score(clicks_total + 1,
          FracSub(FracMul(recent_clicks, RecentWeight),
                  FracMul(FracOf(compute_decay_hours(last_clicked_at_ms, now_ms)),
                          DecayPerTick)))

\* the last line of both scripts: no max(0, ...) on the hours
script_score(clicks_total, recent_clicks, last, now_ms) ==
    Score(clicks_total + 1,
          FracSub(FracMul(recent_clicks, RecentWeight),
                  FracMul(FracOf(now_ms - last), DecayPerTick)))

\* an optional value: None, or <<v>>
OrElse(opt, default) == IF opt = None THEN default ELSE opt[1]

\* track_click, lines 200-215: the document inserted when none is stored.
\* The field content stands for the content fields (title, summary,
\* content) and tells a stub from an indexed page; last_clicked_at is the
\* same instant as last_clicked_at_ms, as a date.
upsert_doc(url, now_ms) ==
    [url |-> url, content |-> "stub",
     clicks_total |-> <<1>>, recent_clicks |-> <<FracOf(1)>>,
     last_clicked_at |-> <<now_ms>>, last_clicked_at_ms |-> <<now_ms>>,
     ranking_score |-> <<compute_ranking_score(1, FracOf(1), <<now_ms>>, now_ms)>>]

click_overwrites_with_stub(source, now_ms) == upsert_doc(source.url, now_ms)

\* CLICK_UPDATE_SCRIPT on the stored _source
CLICK_UPDATE_SCRIPT(source, now_ms) ==
    LET prevLast == OrElse(source.last_clicked_at_ms, now_ms)
        total == OrElse(source.clicks_total, 0) + 1
        recent == FracAdd(OrElse(source.recent_clicks, FracOf(0)), FracOf(1))
    IN  [source EXCEPT !.clicks_total = <<total>>,
                       !.recent_clicks = <<recent>>,
                       !.last_clicked_at_ms = <<now_ms>>,
                       !.last_clicked_at = <<now_ms>>,
                       !.ranking_score = <<script_score(total, recent, prevLast, now_ms)>>]

decay_halves_the_total(source, now_ms) ==
    [source EXCEPT !.clicks_total = <<OrElse(source.clicks_total, 0) \div 2>>,
                   !.recent_clicks =
                       <<FracMul(OrElse(source.recent_clicks, FracOf(0)),
                                 RECENT_CLICK_DECAY_MULTIPLIER)>>]

\* DECAY_SCRIPT on the stored _source
DECAY_SCRIPT(source, now_ms) ==
    LET total == OrElse(source.clicks_total, 0)
        product == FracMul(OrElse(source.recent_clicks, FracOf(0)),
                           RECENT_CLICK_DECAY_MULTIPLIER)
        recent == IF FracLess(product, RecentFloor) THEN FracOf(0) ELSE product
        last == OrElse(source.last_clicked_at_ms, now_ms)
    IN  [source EXCEPT !.clicks_total = <<total>>,
                       !.recent_clicks = <<recent>>,
                       !.ranking_score = <<script_score(total, recent, last, now_ms)>>]

\* the documents given to the indexer.  A parsed page has none of the click
\* fields (parser_cleaner.parse_html); a preset document brings its own, a
\* null clicks_total and a ranking_score that is not 0.0 among them.
ParsedDoc(url) ==
    [url |-> url, content |-> "page", present |-> {},
     clicks_total |-> None, recent_clicks |-> None, ranking_score |-> None,
     last_clicked_at |-> None, last_clicked_at_ms |-> None]

PresetDoc(url) ==
    [url |-> url, content |-> "preset",
     present |-> {"clicks_total", "recent_clicks", "ranking_score"},
     clicks_total |-> None, recent_clicks |-> <<RecentFloor>>,
     ranking_score |-> <<Score(1, FracOf(1))>>,
     last_clicked_at |-> None, last_clicked_at_ms |-> None]

InputDocs == {ParsedDoc(u) : u \in StoreUrls} \cup {PresetDoc(U2)}

\* doc.setdefault(key, default) for the five click fields (lines 15-19)
click_defaults(doc) ==
    [url |-> doc.url, content |-> doc.content,
     clicks_total |-> IF "clicks_total" \in doc.present THEN doc.clicks_total ELSE <<0>>,
     recent_clicks |-> IF "recent_clicks" \in doc.present THEN doc.recent_clicks
                       ELSE <<FracOf(0)>>,
     ranking_score |-> IF "ranking_score" \in doc.present THEN doc.ranking_score
                       ELSE <<ZeroScore>>,
     last_clicked_at |-> IF "last_clicked_at" \in doc.present THEN doc.last_clicked_at
                         ELSE None,
     last_clicked_at_ms |-> IF "last_clicked_at_ms" \in doc.present
                            THEN doc.last_clicked_at_ms ELSE None]

\* Indexer._with_click_defaults; the input documents of the model bring
\* numbers wherever the score is recomputed (line 21)
with_click_defaults(doc, now_ms) ==
    LET d == click_defaults(doc)
    IN  IF d.ranking_score \in {None, <<ZeroScore>>}
        THEN [d EXCEPT !.ranking_score =
                 <<compute_ranking_score(d.clicks_total[1], d.recent_clicks[1],
                                         d.last_clicked_at_ms, now_ms)>>]
        ELSE d

\* es.index(index, id=url, document=prepared): the stored _source is replaced
es_index(stored, url, prepared) == prepared

StoreInit ==
    /\ Constructed([seed_urls |-> <<U1>>, web |-> WebLeaf], 0, 0)
    /\ call = NoCall
    /\ ServiceNew

\* the stored document after a write of _source: its version goes up
Written(url, source) ==
    [source |-> source,
     version |-> IF url \in DOMAIN documents THEN documents[url].version + 1 ELSE 1]

\* asyncio.create_task(decay_loop()): the task is in its first sleep
sleeping_task == [state |-> "sleeping", timer |-> 1, now_ms |-> 0, pending |-> <<>>]

\* startup_event, line 140: `if decay_task is None`
no_decay_task == decay_task.state = "none"

\* startup_event: ensure_indices, and the decay task is created unless the
\* global holds one
Startup ==
    /\ app \in {"new", "up"}
    /\ startups < MaxStartups
    /\ startups' = startups + 1
    /\ app' = "up"
    /\ indices' = TRUE
    /\ IF no_decay_task
       THEN /\ decay_task' = sleeping_task
            /\ tasks_created' = tasks_created + 1
       ELSE UNCHANGED <<decay_task, tasks_created>>
    /\ UNCHANGED <<crawl_state, documents, click_events, calls, clock, sweeps,
                   sweep_failures, index_ops, touched>>

\* the application is shut down.  search_api.py registers no shutdown
\* handler: nothing of the module runs, the global decay_task is as it was
Shutdown ==
    /\ app = "up"
    /\ app' = "stopped"
    /\ UNCHANGED <<crawl_state, indices, documents, click_events, calls, clock, decay_task,
                   startups, tasks_created, sweeps, sweep_failures, index_ops, touched>>

\* track_click, lines 175-188: ensure_indices, the time is read, the click
\* event is sent to the click-log index.  Requests are numbered as they come.
TrackClick(c, url) ==
    /\ app = "up"
    /\ calls[c].pc = "new"
    /\ \A b \in CallIds : b < c => calls[b].pc # "new"
    /\ indices' = TRUE
    /\ calls' = [calls EXCEPT ![c] = [pc |-> "log", url |-> url, now_ms |-> clock]]
    /\ UNCHANGED <<crawl_state, documents, click_events, clock, decay_task, app, startups,
                   tasks_created, sweeps, sweep_failures, index_ops, touched>>

\* lines 179-217: es.index has stored the event; script and upsert document
\* are built and es.update is sent
LogIndexed(c) ==
    /\ calls[c].pc = "log"
    /\ click_events' = click_events \cup {[url |-> calls[c].url, call |-> c]}
    /\ calls' = [calls EXCEPT ![c].pc = "update"]
    /\ UNCHANGED <<crawl_state, indices, documents, clock, decay_task, app, startups,
                   tasks_created, sweeps, sweep_failures, index_ops, touched>>

\* lines 179-188: es.index raises; the exception leaves track_click
LogFails(c) ==
    /\ calls[c].pc = "log"
    /\ calls' = [calls EXCEPT ![c].pc = "failed", ![c].now_ms = 0]
    /\ UNCHANGED <<crawl_state, indices, documents, click_events, clock, decay_task, app,
                   startups, tasks_created, sweeps, sweep_failures, index_ops, touched>>

\* lines 217-226: es.update has run the script on the stored document, or
\* inserted the upsert document, as one write of Elasticsearch; track_click
\* returns
UpdateDone(c) ==
    LET url == calls[c].url
        source == IF url \in DOMAIN documents
                  THEN CLICK_UPDATE_SCRIPT(documents[url].source, calls[c].now_ms)
                  ELSE upsert_doc(url, calls[c].now_ms)
    IN  /\ calls[c].pc = "update"
        /\ documents' = Put(documents, url, Written(url, source))
        /\ calls' = [calls EXCEPT ![c].pc = "returned", ![c].now_ms = 0]
        /\ UNCHANGED <<crawl_state, indices, click_events, clock, decay_task, app, startups,
                       tasks_created, sweeps, sweep_failures, index_ops, touched>>

\* lines 217-224: es.update raises (a version conflict, the backend is
\* down): nothing is written, the exception leaves track_click
UpdateFails(c) ==
    /\ calls[c].pc = "update"
    /\ calls' = [calls EXCEPT ![c].pc = "failed", ![c].now_ms = 0]
    /\ UNCHANGED <<crawl_state, indices, documents, click_events, clock, decay_task, app,
                   startups, tasks_created, sweeps, sweep_failures, index_ops, touched>>

\* Indexer().index_document(doc)
IndexDocument(doc) ==
    LET prepared == with_click_defaults(doc, clock)
    IN  /\ index_ops < MaxIndexOps
        /\ index_ops' = index_ops + 1
        /\ indices' = TRUE
        /\ documents' = Put(documents, doc.url,
                            Written(doc.url, es_index(documents, doc.url, prepared)))
        /\ touched' = touched \cup {doc.url}
        /\ UNCHANGED <<crawl_state, click_events, calls, clock, decay_task, app, startups,
                       tasks_created, sweeps, sweep_failures>>

\* Indexer().bulk_index(docs), for the parsed pages of all URLs: one index
\* operation per document
BulkIndex ==
    /\ index_ops < MaxIndexOps
    /\ index_ops' = index_ops + 1
    /\ indices' = TRUE
    /\ documents' = [u \in DOMAIN documents \cup StoreUrls |->
                       IF u \in StoreUrls
                       THEN Written(u, es_index(documents, u,
                                                with_click_defaults(ParsedDoc(u), clock)))
                       ELSE documents[u]]
    /\ touched' = touched \cup StoreUrls
    /\ UNCHANGED <<crawl_state, click_events, calls, clock, decay_task, app, startups,
                   tasks_created, sweeps, sweep_failures>>

\* a tick passes
Advance ==
    /\ clock < Epoch + MaxClock
    /\ clock' = clock + 1
    /\ decay_task' = [decay_task EXCEPT !.timer = IF @ > 0 THEN @ - 1 ELSE 0]
    /\ UNCHANGED <<crawl_state, indices, documents, click_events, calls, app, startups,
                   tasks_created, sweeps, sweep_failures, index_ops, touched>>

\* decay_loop, lines 107-109, and apply_decay, lines 115-131: the sleep is
\* over (each sleep takes a tick, so the clock bounds the sweeps), the time
\* is read and update_by_query takes its snapshot of the index: the
\* documents it will visit, each at its version
DecayWake ==
    /\ decay_task.state = "sleeping"
    /\ decay_task.timer = 0
    /\ decay_task' = [decay_task EXCEPT
                         !.state = "sweeping",
                         !.now_ms = clock,
                         !.pending = [u \in DOMAIN documents |-> documents[u].version]]
    /\ UNCHANGED <<crawl_state, indices, documents, click_events, calls, clock, app, startups,
                   tasks_created, sweeps, sweep_failures, index_ops, touched>>

\* update_by_query on one document of its snapshot: the script is run and
\* the result written, unless the document was written since the snapshot
\* (conflicts="proceed": it is passed over)
SweepDocument(url) ==
    LET rest == [u \in DOMAIN decay_task.pending \ {url} |-> decay_task.pending[u]]
        conflict == documents[url].version # decay_task.pending[url]
    IN  /\ decay_task.state = "sweeping"
        /\ url \in DOMAIN decay_task.pending
        /\ decay_task' = [decay_task EXCEPT !.pending = rest]
        /\ IF conflict
           THEN UNCHANGED <<documents, touched>>
           ELSE /\ documents' = Put(documents, url,
                                    Written(url, DECAY_SCRIPT(documents[url].source,
                                                              decay_task.now_ms)))
                /\ touched' = touched \cup {url}
        /\ UNCHANGED <<crawl_state, indices, click_events, calls, clock, app, startups,
                       tasks_created, sweeps, sweep_failures, index_ops>>

\* decay_loop, lines 106-107: apply_decay has returned, the task sleeps again
SweepDone ==
    /\ decay_task.state = "sweeping"
    /\ decay_task.pending = <<>>
    /\ decay_task' = sleeping_task
    /\ sweeps' = sweeps + 1
    /\ UNCHANGED <<crawl_state, indices, documents, click_events, calls, clock, app, startups,
                   tasks_created, sweep_failures, index_ops, touched>>

\* decay_loop, lines 108-111: apply_decay raises (the backend fails under
\* update_by_query); the exception is logged, the task sleeps again
SweepFails ==
    /\ decay_task.state = "sweeping"
    /\ decay_task' = sleeping_task
    /\ sweep_failures' = sweep_failures + 1
    /\ UNCHANGED <<crawl_state, indices, documents, click_events, calls, clock, app, startups,
                   tasks_created, sweeps, index_ops, touched>>

StoreNext ==
    \/ Startup
    \/ Shutdown
    \/ \E c \in CallIds :
          \/ \E url \in StoreUrls : TrackClick(c, url)
          \/ LogIndexed(c)
          \/ LogFails(c)
          \/ UpdateDone(c)
          \/ UpdateFails(c)
    \/ \E doc \in InputDocs : IndexDocument(doc)
    \/ BulkIndex
    \/ Advance
    \/ DecayWake
    \/ \E url \in StoreUrls : SweepDocument(url)
    \/ SweepDone
    \/ SweepFails

StoreSpec == StoreInit /\ [][StoreNext]_vars

(***************************************************************************)
(* Properties                                                              *)
(***************************************************************************)
\* the URLs of a sequence of (url, body) results
UrlsOf(items) == {items[i].url : i \in DOMAIN items}

\* the workers that are inside fetch(), or past it with the page in hand
PageFetchAt == {"fetch", "fetch_get", "backoff", "raised", "incr", "visit", "publish",
                "links"}

\* the URLs a crawl can discover: the seeds and what extract_links finds
RECURSIVE LinkClosure(_)
LinkClosure(S) ==
    LET more == S \cup UNION {Range(extract_links(web[u], u)) : u \in S}
    IN  IF more = S THEN S ELSE LinkClosure(more)

Reachable == LinkClosure(Range(seed_urls))

\* R.is_allowed(path(url)) for the rules R cached for the origin of url
AllowedByCachedRules(u) ==
    rules_is_allowed(Get(rules, domain_key(u), EmptyRules), path_of(u))

\* C1: the sequence of results emitted to the consumer contains no URL
\* twice, whatever the seeds (duplicates included), the link graph and the
\* interleaving of the workers.
C1_NoUrlEmittedTwice ==
    \A i, j \in DOMAIN emitted : emitted[i].url = emitted[j].url => i = j

\* a crawl of duplicate seeds and a graph that links back has emitted two pages
C1_Witness ==
    /\ seed_urls = <<U1, U1>>
    /\ Len(emitted) = 2
    /\ U1 \in UrlsOf(emitted)
    /\ driver = "done"

\* C2: in every reachable state the number of emitted results is at most
\* pages_crawled, which is at most max_pages; every reserved page slot
\* belongs to a result that is published or about to be, so that a fetch
\* that completes after the cap is reached publishes nothing.
C2_PageCap ==
    /\ Len(emitted) <= pages_crawled
    /\ pages_crawled <= max_pages
    /\ pages_crawled = Len(emitted) + Len(results)
                         + Cardinality({w \in Workers : worker[w].pc \in {"visit", "publish"}})

\* a fetch has completed after the cap was reached and every slot was emitted
C2_Witness ==
    /\ max_pages = MaxPages
    /\ pages_crawled = max_pages
    /\ Len(emitted) = max_pages
    /\ \E w \in Workers : worker[w].pc = "incr"

\* a crawl has ended because its queue was drained, no fetch has raised, and
\* the reachable URLs are all allowed by robots and number at least max_pages
EndedUnblocked ==
    /\ driver = "done"
    /\ ~closed
    /\ raised_urls = {}
    /\ \A u \in Reachable : AllowedByCachedRules(u)
    /\ Cardinality(Reachable) >= max_pages

\* C3: under fair scheduling the crawl terminates, for every interleaving
\* of the workers; and when at least max_pages URLs are reachable from the
\* seeds, all are allowed by robots, no fetch has raised and the consumer
\* has kept iterating, it has then emitted exactly max_pages results.
C3_ExactlyMaxPages ==
    /\ <>(driver = "done")
    /\ [](EndedUnblocked => Len(emitted) = max_pages)

\* such a crawl has ended, with more URLs reachable than the cap
C3_Witness ==
    /\ EndedUnblocked
    /\ max_pages = MaxPages
    /\ Cardinality(Reachable) > max_pages
    /\ Len(emitted) = max_pages

\* the URLs that are being fetched as a page, or have been
FetchedAsPage == {worker[w].url : w \in {v \in Workers : worker[v].pc \in PageFetchAt}}
                    \cup UrlsOf(results) \cup UrlsOf(emitted)

\* the rules deny every path: "/" is disallowed and nothing is allowed
DeniesAll(r) == <<"/">> \in Range(r.disallows) /\ r.allows = <<>>

\* C4 (as amended): every URL that is fetched as a page, published or
\* emitted is allowed by the rules cached for its origin, which are stored
\* by then; and when the rules of an origin disallow "/" and allow nothing,
\* no URL of that origin is ever fetched as a page or emitted.
C4_EmittedAllowedByRobots ==
    /\ \A u \in FetchedAsPage : domain_key(u) \in DOMAIN rules /\ AllowedByCachedRules(u)
    /\ \A o \in DOMAIN rules :
          DeniesAll(rules[o]) => \A u \in FetchedAsPage : domain_key(u) # o

\* the origin of a seed denies everything, a URL of it was turned away, and
\* a page of another origin was emitted
C4_Witness ==
    \E i \in DOMAIN seed_urls :
       /\ domain_key(seed_urls[i]) \in DOMAIN rules
       /\ DeniesAll(rules[domain_key(seed_urls[i])])
       /\ seed_urls[i] \in visited
       /\ Len(emitted) >= 1

\* C4 as the claim states it: when the robots document of the origin of a
\* seed disallows "/", no URL of that origin is ever fetched as a page or
\* emitted.
C4_DisallowRootBlocksOrigin ==
    \A i \in DOMAIN seed_urls :
       LET o == domain_key(seed_urls[i])
       IN  (o \in DOMAIN rules /\ <<"/">> \in Range(rules[o].disallows))
              => \A u \in FetchedAsPage : domain_key(u) # o

\* C5: for an origin whose rules declare a crawl delay d > 0, a page
\* request (each attempt of a retried fetch counted) is sent only when at
\* least d ticks have passed since the last page request to that origin.
C5_CrawlDelaySpacing ==
    [][\A w \in Workers :
          (worker[w].pc = "fetch" /\ worker'[w].pc = "fetch_get")
             => since_get[domain_key(worker[w].url)] >= crawl_delay_of(rules, worker[w].url)]_vars

\* C6: in every step visited and enqueued only grow, pages_crawled does not
\* decrease, and a stop flag that is set stays set.
C6_FrontierMonotonic ==
    [][/\ visited \subseteq visited'
       /\ enqueued \subseteq enqueued'
       /\ pages_crawled <= pages_crawled'
       /\ stop_event => stop_event']_vars

\* a crawl in which all four have changed, a robots denial included
C6_Witness ==
    /\ stop_event
    /\ pages_crawled = MaxPages
    /\ Cardinality(enqueued) >= 3
    /\ \E u \in visited : ~AllowedByCachedRules(u)
    /\ \E u \in visited : u \in UrlsOf(emitted)

\* the workers that have called ensure_rules and have it behind them
PastEnsure == PageFetchAt \cup {"blocked", "delay", "delay_lock", "delay_sleep"}

\* C7: at most one robots.txt request is ever sent to an origin; a caller
\* of ensure_rules that finds the request in flight waits for it, every
\* caller that has returned finds rules stored for the origin, and stored
\* rules are never replaced or modified.
C7_SingleFlightRobots ==
    /\ [](\A o \in Origins : robots_requests[o] <= 1)
    /\ [](\A w \in Workers :
             LET o == domain_key(worker[w].url)
             IN  /\ (worker[w].pc = "robots_lock" /\ ~worker[w].cancelled)
                       => \/ o \in DOMAIN rules
                          \/ \E v \in Workers \ {w} :
                                worker[v].pc = "robots_get" /\ domain_key(worker[v].url) = o
                 /\ worker[w].pc \in PastEnsure => o \in DOMAIN rules)
    /\ [][\A o \in DOMAIN rules : o \in DOMAIN rules' /\ rules'[o] = rules[o]]_vars

\* a caller waits while the request of another for the same origin is in flight
C7_Witness ==
    \E w, v \in Workers :
       /\ worker[w].pc = "robots_lock"
       /\ worker[v].pc = "robots_get"
       /\ domain_key(worker[w].url) = domain_key(worker[v].url)
       /\ worker[w].url # worker[v].url
       /\ robots_requests[domain_key(worker[w].url)] = 1

\* C8: after a failed robots.txt request (a status other than 200, or an
\* error) empty rules are stored for the origin, a worker with a URL of the
\* origin is not turned away and sends no further robots.txt request: the
\* request was sent once.
C8_RobotsFailureAllowsAll ==
    /\ \A o \in Origins :
          robots_failed[o] =>
             /\ o \in DOMAIN rules
             /\ rules[o] = EmptyRules
             /\ robots_requests[o] = 1
    /\ \A w \in Workers :
          (worker[w].pc \notin {"new", "get", "exit"}
              /\ robots_failed[domain_key(worker[w].url)])
             => worker[w].pc \notin {"blocked", "robots_get", "raised"}
                   \/ (worker[w].pc = "raised" /\ worker[w].attempt >= 1)

\* after the failure a page of the origin was crawled, and a worker fetches
\* a later URL of the same origin
C8_Witness ==
    \E w \in Workers :
       LET o == domain_key(worker[w].url)
       IN  /\ worker[w].pc = "fetch_get"
           /\ robots_failed[o]
           /\ \E u \in visited : u # worker[w].url /\ domain_key(u) = o

\* prefix is a prefix of s
IsPrefix(prefix, s) == \E n \in 0..Len(s) : prefix = SubSeq(s, 1, n)

\* the length of the longest pattern of the list that is a prefix of the
\* path, -1 when none is
LongestMatch(patterns, path) ==
    LET lengths == {Len(patterns[i]) : i \in {j \in DOMAIN patterns : IsPrefix(patterns[j], path)}}
    IN  IF lengths = {} THEN -1
        ELSE CHOOSE n \in lengths : \A m \in lengths : m <= n

\* C9: for every path and every pair of allow / disallow lists, with A and
\* D the longest matching allow and disallow lengths (-1 when none
\* matches), is_allowed returns allow if D = -1, else deny if A = -1, else
\* allow if A >= D, else deny.
C9_LongestPrefixDecision ==
    (call.fn = "is_allowed" /\ call.returned # <<>>) =>
       LET A == LongestMatch(call.rules.allows, call.path)
           D == LongestMatch(call.rules.disallows, call.path)
       IN  call.returned[1] = (IF D = -1 THEN TRUE
                               ELSE IF A = -1 THEN FALSE
                               ELSE IF A >= D THEN TRUE
                               ELSE FALSE)

\* is_allowed has returned on a tie of two matching patterns of length 2
C9_Witness ==
    /\ call.fn = "is_allowed"
    /\ call.returned = <<TRUE>>
    /\ LongestMatch(call.rules.allows, call.path) = 2
    /\ LongestMatch(call.rules.disallows, call.path) = 2
    /\ Len(call.rules.allows) = 2
    /\ Len(call.path) = 3

\* the sleeps of a fetch call that has made n of them
Backoffs(n) == [i \in 1..n |-> retry_backoff * i]

\* C10: a fetch call sends at most max_retries requests; when it returns a
\* body, at attempt k, it has sent k requests and slept retry_backoff * 1,
\* ..., retry_backoff * (k - 1) in that order, and the body is that of the
\* page; when all max_retries >= 1 attempts have failed it raises the error
\* of the last attempt, having slept only between the attempts.
C10_FetchRetryProtocol ==
    \A w \in Workers :
       /\ worker[w].requests <= max_retries
       /\ worker[w].pc = "incr" =>
             /\ worker[w].attempt >= 1
             /\ worker[w].requests = worker[w].attempt
             /\ worker[w].sleeps = Backoffs(worker[w].attempt - 1)
             /\ worker[w].html = web[worker[w].url]
       /\ (worker[w].pc = "raised" /\ max_retries >= 1) =>
             /\ worker[w].requests = max_retries
             /\ worker[w].last_error.attempt = max_retries
             /\ worker[w].sleeps = Backoffs(max_retries - 1)

\* a fetch call has returned at its last attempt, after a sleep before each
\* retry, and an earlier call has raised
C10_Witness ==
    \E w \in Workers :
       /\ max_retries = MaxRetries
       /\ worker[w].pc = "incr"
       /\ worker[w].attempt = max_retries
       /\ Len(worker[w].sleeps) = max_retries - 1
       /\ raised_urls # {}

\* C11: every fetch call sends at least one request before it reports
\* failure, whatever max_retries is configured (0 included).
C11_AtLeastOneAttempt ==
    \A w \in Workers : worker[w].pc = "raised" => worker[w].requests >= 1

\* the page requests in flight: the workers suspended in session.get
InFlight == {w \in Workers : worker[w].pc = "fetch_get"}

\* C12: the page GETs in flight are as many as the semaphore slots held, at
\* most max(1, concurrency); every slot held being that of a request in
\* flight, a worker asleep in retry backoff or in a crawl-delay wait holds none.
C12_InFlightEqualsSlotsHeld ==
    /\ fetch_semaphore \in 0..concurrency
    /\ Cardinality(InFlight) = concurrency - fetch_semaphore
    /\ Cardinality(InFlight) <= concurrency

\* one worker sleeps between two attempts while the other has a request in
\* flight on the only slot taken
C12_Witness ==
    \E w, v \in Workers :
       /\ worker[w].pc = "backoff"
       /\ worker[v].pc = "fetch_get"
       /\ fetch_semaphore = concurrency - 1

\* crawl() has ended by itself: the consumer never closed the generator
EndedNormally == driver = "done" /\ ~closed

\* C13: with a consumer that keeps iterating and requests that all complete,
\* crawl() terminates; the loop is left only when every dequeued URL is
\* acknowledged and no result waits, so that at a normal end every result a
\* worker has published (one per counted page) has been yielded.
C13_TerminatesWithAllResultsYielded ==
    /\ <>(driver = "done")
    /\ [][(driver = "loop" /\ driver' = "finally")
             => (unfinished_tasks = 0 /\ results = <<>>)]_vars
    /\ [](EndedNormally =>
             /\ results = <<>>
             /\ queue = <<>>
             /\ Len(emitted) = pages_crawled
             /\ \A w \in Workers : worker[w].pc = "exit")

\* a crawl has ended by itself after two pages were published and yielded,
\* one fetch having raised on the way
C13_Witness ==
    /\ EndedNormally
    /\ pages_crawled = 2
    /\ Len(emitted) = 2
    /\ raised_urls # {}

\* C14: on both exit paths, once the shutdown path has run every worker has
\* been cancelled and has finished, the ticker has finished and the session
\* is closed; the one session of the run stays open as long as a worker
\* task lives; and closing the generator again changes nothing of the crawl
\* (after the end only time passes).
C14_ShutdownReleasesEverything ==
    /\ [](driver = "done" =>
             /\ \A w \in Workers : worker[w].pc = "exit" /\ worker[w].cancelled
             /\ log_task = "finished"
             /\ ~session_open)
    /\ []((\E w \in Workers : worker[w].pc \notin {"new", "exit"}) => session_open)
    /\ [][(~session_open /\ session_open') => driver = "seed"]_vars
    /\ [][reclosed' # reclosed =>
             UNCHANGED <<crawler_vars, robots_vars, crawl_vars, worker>>]_vars
    /\ [][driver = "done" =>
             UNCHANGED <<crawler_vars, rules, fetch_locks, delay_locks, crawl_vars, worker>>]_vars

\* the consumer has stopped early, before the cap was reached, so that the
\* ticker had to be cancelled; it has then closed the ended generator again
C14_Witness ==
    /\ driver = "done"
    /\ closed
    /\ ~stop_event
    /\ reclosed >= 1

\* the positions inside wait_for_crawl_delay
InWait == {"delay", "delay_lock", "delay_sleep"}

\* worker w returns from wait_for_crawl_delay in this step
Returns(w) == worker[w].pc \in InWait /\ worker'[w].pc = "fetch"

\* sequence s with the members of the set gone kept its order
KeepsOrder(before, after) ==
    SelectSeq(before, LAMBDA x : x \in Range(after))
       = SelectSeq(after, LAMBDA x : x \in Range(before))

\* C20: for an origin with crawl delay d > 0 a call of wait_for_crawl_delay
\* returns at least d ticks after the previous return for that origin, and
\* the calls return in the order in which they came to the lock of the
\* origin; a call for an origin with no, zero or negative delay returns at
\* once and leaves next_allowed alone; and a call waits only behind calls
\* for its own origin.
C20_CrawlDelayFirstComeFirstServed ==
    [][\A w \in Workers :
          LET o == domain_key(worker[w].url)
              d == crawl_delay_of(rules, worker[w].url)
              busy == {v \in Workers \ {w} :
                          worker[v].pc \in {"delay_lock", "delay_sleep"}
                             /\ domain_key(worker[v].url) = o}
          IN  /\ (Returns(w) /\ d > 0) =>
                    /\ since_return[o] >= d
                    /\ o \in DOMAIN delay_locks => delay_locks[o] \in {<<>>, <<w>>}
                                                     \/ Head(delay_locks[o]) = w
                    /\ Get(next_allowed', o, 0) = d
              /\ (worker[w].pc = "delay" /\ worker'[w].pc # "delay" /\ d <= 0) =>
                    /\ Returns(w)
                    /\ UNCHANGED <<next_allowed, delay_locks>>
              /\ (worker[w].pc = "delay" /\ worker'[w].pc # "delay" /\ d > 0
                    /\ busy = {} /\ Get(next_allowed, o, 0) = 0) => Returns(w)
              /\ \A p \in DOMAIN delay_locks :
                    /\ KeepsOrder(delay_locks[p], delay_locks'[p])
                    /\ \A v \in Range(delay_locks[p]) : domain_key(worker[v].url) = p]_vars

\* a call for an origin with a delay has waited behind another call for the
\* same origin and is given the lock, while the origin's next_allowed is
\* still in the future
C20_Witness ==
    \E w, v \in Workers :
       /\ w # v
       /\ worker[w].pc = "delay_sleep"
       /\ worker[v].pc \in {"fetch", "fetch_get"}
       /\ domain_key(worker[w].url) = domain_key(worker[v].url)
       /\ since_return[domain_key(worker[w].url)] < crawl_delay_of(rules, worker[w].url)

\* a call for an origin whose crawl delay is negative has returned
C20_NegativeDelayReturned ==
    \E w \in Workers :
       /\ worker[w].pc \in {"fetch", "fetch_get"}
       /\ crawl_delay_of(rules, worker[w].url) < 0

\* the track_click requests for url that have returned
Completed(url) == {c \in CallIds : calls[c].pc = "returned" /\ calls[c].url = url}

\* C15: a URL that had no document at the start and that no sweep and no
\* indexer call has written has a document exactly when a track_click for it
\* has returned, with clicks_total = recent_clicks = the number of returned
\* calls, in whatever order the calls were served; and the update of one
\* call leaves the documents of the other URLs as they are.
C15_ClicksAddUp ==
    /\ [](\A url \in StoreUrls \ touched :
             LET N == Cardinality(Completed(url))
             IN  IF N = 0 THEN url \notin DOMAIN documents
                 ELSE /\ url \in DOMAIN documents
                      /\ documents[url].source.clicks_total = <<N>>
                      /\ documents[url].source.recent_clicks = <<FracOf(N)>>)
    /\ [][\A c \in CallIds :
             (calls[c].pc = "update" /\ calls'[c].pc = "returned") =>
                \A v \in DOMAIN documents \ {calls[c].url} : documents'[v] = documents[v]]_vars

\* two calls for one URL have returned, the one that read the later time
\* served first: last_clicked_at_ms is the earlier time
C15_Witness ==
    /\ U1 \notin touched
    /\ Completed(U1) = {1, 2}
    /\ documents[U1].source.clicks_total = <<2>>
    /\ documents[U1].source.last_clicked_at_ms = <<Epoch>>
    /\ documents[U1].source.ranking_score[1].rest # FracMul(FracOf(2), RecentWeight)

\* the click events of request c in the click log
EventsOf(c) == {e \in click_events : e.call = c}

\* C16: track_click is all or nothing: a request that has failed has left
\* no event in the click log, a request that has returned has left one and
\* its document.
C16_TrackClickAllOrNothing ==
    \A c \in CallIds :
       /\ calls[c].pc = "failed" => EventsOf(c) = {}
       /\ calls[c].pc = "returned" =>
             EventsOf(c) # {} /\ calls[c].url \in DOMAIN documents

\* clicks_total of a stored document, a null counted as 0
TotalOf(stored) == OrElse(stored.source.clicks_total, 0)

\* C17: no step makes the clicks_total of a stored document smaller.
C17_ClicksTotalNeverDecreases ==
    [][\A url \in DOMAIN documents : TotalOf(documents'[url]) >= TotalOf(documents[url])]_vars

\* what recent_clicks becomes in a sweep
Decayed(recent_clicks) ==
    LET product == FracMul(OrElse(recent_clicks, FracOf(0)), RECENT_CLICK_DECAY_MULTIPLIER)
    IN  IF FracLess(product, RecentFloor) THEN FracOf(0) ELSE product

\* the step is the visit of the sweep to the document url
SweepVisits(url) ==
    /\ decay_task.state = "sweeping"
    /\ decay_task'.state = "sweeping"
    /\ url \in DOMAIN decay_task.pending
    /\ url \notin DOMAIN decay_task'.pending

\* C18: the visit of a sweep to a document leaves every other document as
\* it is and, in the document, changes recent_clicks (multiplied by the
\* multiplier, 0.0 when the product is below 0.01) and ranking_score only;
\* a null clicks_total becomes 0.
C18_SweepFrame ==
    [][\A url \in StoreUrls :
          SweepVisits(url) =>
             LET old == documents[url].source
                 new == documents'[url].source
             IN  /\ \A v \in DOMAIN documents \ {url} : documents'[v] = documents[v]
                 /\ DOMAIN documents' = DOMAIN documents
                 /\ new = old
                    \/ /\ new.recent_clicks = <<Decayed(old.recent_clicks)>>
                       /\ new.clicks_total = <<OrElse(old.clicks_total, 0)>>
                       /\ new.last_clicked_at_ms = old.last_clicked_at_ms
                       /\ new.last_clicked_at = old.last_clicked_at
                       /\ new.url = old.url
                       /\ new.content = old.content]_vars

\* a sweep has multiplied the recent_clicks of a clicked document, and has
\* floored those of a document that was indexed with 0.01 and a null
\* clicks_total
C18_Witness ==
    /\ U1 \in DOMAIN documents
    /\ U2 \in DOMAIN documents
    /\ documents[U1].source.recent_clicks = <<Frac(17, 20)>>
    /\ documents[U1].source.clicks_total = <<1>>
    /\ documents[U2].source.content = "preset"
    /\ documents[U2].source.recent_clicks = <<FracOf(0)>>
    /\ documents[U2].source.clicks_total = <<0>>

\* C19: at most one decay task is ever created, however often the startup
\* handler runs; a sweep that raises leaves the task alive; and once the
\* application is shut down no decay task is left.
C19_DecayTaskLifecycle ==
    /\ tasks_created <= 1
    /\ sweep_failures > 0 => decay_task.state \in {"sleeping", "sweeping"}
    /\ app = "stopped" => decay_task.state \notin {"sleeping", "sweeping"}

\* the first two parts of C19 alone
C19_SingleTaskSurvivesFailure ==
    /\ tasks_created <= 1
    /\ sweep_failures > 0 => decay_task.state \in {"sleeping", "sweeping"}

\* the startup handler has run twice and a sweep has raised
C19_StartedTwiceSweepFailed ==
    /\ startups = 2
    /\ sweep_failures > 0
    /\ tasks_created = 1

(***************************************************************************)
(* C21.  What a worker may still do once stop_event is set.                *)
(***************************************************************************)
\* the results published so far: those yielded and those still waiting
Published == Len(emitted) + Len(results)

\* C21 as claimed: once stop is set no step adds a URL to enqueued, puts one
\* on the work queue or publishes a result, and a dequeue only acknowledges
C21_NothingAfterStop ==
    [][stop_event =>
          /\ enqueued' = enqueued
          /\ Len(queue') <= Len(queue)
          /\ Len(results') <= Len(results)
          /\ Len(queue') < Len(queue) =>
                /\ worker' = worker
                /\ unfinished_tasks' = unfinished_tasks - 1]_vars

\* C21, amended: once stop is set no step adds a URL to enqueued or puts one
\* on the work queue, and a dequeue only acknowledges; the one result that is
\* published after stop is the page whose _increment_pages took the last
\* slot and thereby set stop: it brings the results published to max_pages
C21_StopSuppressesAllButTheLastPage ==
    [][stop_event =>
          /\ enqueued' = enqueued
          /\ Len(queue') <= Len(queue)
          /\ Len(results') > Len(results) =>
                /\ \E w \in Workers :
                      /\ worker[w].pc = "publish"
                      /\ results' = Append(results, [url |-> worker[w].url,
                                                     body |-> worker[w].html])
                /\ pages_crawled = max_pages
                /\ Len(emitted') + Len(results') = max_pages
          /\ Len(queue') < Len(queue) =>
                /\ worker' = worker
                /\ unfinished_tasks' = unfinished_tasks - 1
                /\ UNCHANGED <<visited, pages_crawled, results, robots_requests>>]_vars

\* stop was set by the second page of the star, which was then published,
\* while a link of the first page was still on the queue; that link has been
\* dequeued since, and no robots.txt of its origin was ever asked for
C21_Witness ==
    /\ stop_event
    /\ web = WebStar
    /\ max_pages = MaxPages
    /\ Published = max_pages
    /\ queue = <<>>
    /\ U3 \in enqueued
    /\ U3 \notin visited \cup raised_urls
    /\ \A w \in Workers : worker[w].url # U3
    /\ robots_requests[domain_key(U3)] = 0

(***************************************************************************)
(* C22.  Every dequeued URL is acknowledged exactly once.                  *)
(***************************************************************************)
\* the workers that have dequeued a URL and not yet acknowledged it
Holding == {w \in Workers : worker[w].pc \notin {"new", "get", "exit"}}

\* the calls of queue.put and of queue.task_done so far: every put follows
\* a _mark_enqueued that added a new URL, unfinished_tasks is their difference
Puts == Cardinality(enqueued)

Acks == Puts - unfinished_tasks

\* the crawl has ended, by itself or because the consumer closed it
Ended == driver = "done"

\* C22 as claimed, its last sentence: the acknowledgements eventually equal
\* the queue puts, so they do when the crawl has ended
C22_AcksReachPuts == Ended => Acks = Puts

\* C22, amended: the URLs put and not acknowledged are those on the queue
\* and the one each worker has in hand, so a dequeued URL is acknowledged
\* exactly once, when its worker lets go of it on whatever path, and a worker
\* cancelled in queue.get() acknowledges nothing; acknowledgements never
\* exceed the puts; when the crawl has ended no worker has a URL in hand, and
\* the acknowledgements equal the puts unless the consumer closed the
\* generator with URLs still on the queue
C22_AcknowledgedExactlyOnce ==
    /\ Acks <= Puts
    /\ unfinished_tasks = Len(queue) + Cardinality(Holding)
    /\ \A w \in Workers : worker[w].url # NoUrl <=> w \in Holding
    /\ Ended => Holding = {} /\ (closed \/ Acks = Puts)

\* a crawl ended by itself after the link extraction of its first page had
\* raised on the malformed href: the link before it was enqueued, the one
\* after it never was, and everything put was acknowledged
C22_Witness ==
    /\ Ended
    /\ ~closed
    /\ web = WebBroken
    /\ ~stop_event
    /\ U3 \in UrlsOf(emitted)
    /\ enqueued = {U3, U2}
    /\ Acks = Puts
    /\ Puts = 2

\* the consumer closed the generator and workers were cancelled with a URL
\* in hand: each was acknowledged, what was left on the queue was not
C22_ClosedWithQueueLeft ==
    /\ Ended
    /\ closed
    /\ queue # <<>>
    /\ Acks < Puts

(***************************************************************************)
(* C23.  Back-pressure of the results channel.                             *)
(***************************************************************************)
\* the results published and not yet taken by the driver
Backlog == Len(results)

\* C23: the results channel is bounded: the results published and not yet
\* taken never exceed its capacity, and a worker does not publish to a full
\* channel: it waits, fetching no further page, until a result is taken.
\* (Stated for a channel of capacity ResultsCapacity; the channel of the code
\* fails it for every capacity below max_pages.)
C23_ResultsChannelBounded ==
    [][/\ Backlog <= ResultsCapacity
       /\ Backlog >= ResultsCapacity => Len(results') <= Backlog]_vars

\* the backlog has reached the page cap: every page of the crawl was fetched
\* and published before the driver took the first
C23_BacklogReachesCap ==
    /\ max_pages = MaxPages
    /\ Backlog = max_pages
    /\ emitted = <<>>

(***************************************************************************)
(* C24.  URLs that are dropped without being emitted.                      *)
(***************************************************************************)
\* the URLs turned away by robots: visited, and denied by the cached rules
Denied == {u \in visited : ~AllowedByCachedRules(u)}

\* the URLs dropped without a page: denied, or their fetch has raised
Dropped == Denied \cup raised_urls

\* the URLs the workers have in hand
InHand == {worker[w].url : w \in Holding}

\* the URLs that are still to be processed, or are being processed
Pending == Range(queue) \cup InHand

\* C24: a URL that robots denies is added to visited, a URL whose fetch
\* raises is not and stays in enqueued; neither step changes pages_crawled
\* or publishes anything; a dropped URL stays dropped, is never published
\* and is never again on the queue or in the hands of a worker, although it
\* is rediscovered; and no URL is on the queue twice or in two hands, so
\* that fetch is called at most once per URL.
C24_DroppedForGood ==
    /\ [](/\ Dropped \subseteq enqueued
          /\ raised_urls \cap visited = {}
          /\ Dropped \cap (Pending \cup UrlsOf(results) \cup UrlsOf(emitted)) = {}
          /\ Cardinality(Pending) = Len(queue) + Cardinality(Holding))
    /\ [][/\ Dropped \subseteq Dropped'
          /\ Pending' \ Pending \subseteq enqueued' \ enqueued
          /\ \A w \in Workers :
                /\ (worker[w].pc = "blocked" /\ worker'[w].pc # "blocked") =>
                      /\ visited' = visited \cup {worker[w].url}
                      /\ worker[w].url \in Denied'
                      /\ UNCHANGED <<enqueued, pages_crawled, results, emitted>>
                /\ (worker[w].pc = "raised" /\ worker'[w].pc # "raised") =>
                      /\ worker[w].url \in raised_urls' \cap enqueued'
                      /\ UNCHANGED <<visited, enqueued, pages_crawled, results, emitted>>]_vars

\* a page that was published links to a URL whose fetch has raised: the
\* worker is about to call _mark_enqueued on it
C24_Witness ==
    \E w \in Workers :
       /\ worker[w].pc = "links"
       /\ Head(worker[w].links) \in raised_urls
       /\ ~stop_event

\* the same for a URL that robots denied
C24_DeniedRediscovered ==
    \E w \in Workers :
       /\ worker[w].pc = "links"
       /\ Head(worker[w].links) \in Denied
       /\ ~stop_event

(***************************************************************************)
(* C25.  The score the scripts write against ranking.compute_ranking_score.*)
(***************************************************************************)
\* the step is the update of request c by script, on a stored document
ClickScriptRuns(c) ==
    /\ calls[c].pc = "update"
    /\ calls'[c].pc = "returned"
    /\ calls[c].url \in DOMAIN documents

\* the score of the formula for the counters of a stored _source
FormulaScore(source, last, now_ms) ==
    compute_ranking_score(source.clicks_total[1], source.recent_clicks[1], <<last>>, now_ms)

\* the decay term of a score, taken back from it: what was subtracted from
\* 0.7 * recent_clicks
DecayTerm(source) ==
    FracSub(FracMul(source.recent_clicks[1], RecentWeight), source.ranking_score[1].rest)

\* the sweep writes the score of the formula, with last = last_clicked_at_ms
\* or now_ms, and its decay term is not negative
SweepScoreIsTheFormula ==
    [][\A url \in StoreUrls :
          (SweepVisits(url) /\ documents'[url] # documents[url]) =>
             LET new == documents'[url].source
                 now_ms == decay_task.now_ms
                 last == OrElse(documents[url].source.last_clicked_at_ms, now_ms)
             IN  /\ new.ranking_score = <<FormulaScore(new, last, now_ms)>>
                 /\ ~FracLess(DecayTerm(new), FracOf(0))]_vars

\* C25: the ranking_score that the click-update script writes is
\* compute_ranking_score of the counters it has written, the now_ms of the
\* request and last = prev_last (the last_clicked_at_ms stored before, or
\* now_ms), and its decay term is not negative, in whatever order the
\* requests are served.
C25_ScriptScoreIsTheFormula ==
    [][\A c \in CallIds :
          ClickScriptRuns(c) =>
             LET new == documents'[calls[c].url].source
                 now_ms == calls[c].now_ms
                 prev_last == OrElse(documents[calls[c].url].source.last_clicked_at_ms, now_ms)
             IN  /\ new.ranking_score = <<FormulaScore(new, prev_last, now_ms)>>
                 /\ ~FracLess(DecayTerm(new), FracOf(0))]_vars

\* a click was served after one that had read a later time: the score holds
\* a negative decay term
C25_NegativeDecayStored ==
    \E url \in DOMAIN documents :
       /\ url \notin touched
       /\ FracLess(DecayTerm(documents[url].source), FracOf(0))

\* the same holds of a click that is served with a now_ms not before the
\* stored last_clicked_at_ms
ClickScoreIsTheFormulaInOrder ==
    [][\A c \in CallIds :
          ClickScriptRuns(c) =>
             LET new == documents'[calls[c].url].source
                 now_ms == calls[c].now_ms
                 prev_last == OrElse(documents[calls[c].url].source.last_clicked_at_ms, now_ms)
             IN  now_ms >= prev_last =>
                    /\ new.ranking_score = <<FormulaScore(new, prev_last, now_ms)>>
                    /\ ~FracLess(DecayTerm(new), FracOf(0))]_vars

(***************************************************************************)
(* C26.  _parse_robots against the grouping rule, stated on the document   *)
(* as a whole.                                                             *)
(***************************************************************************)
IsAgentLine(l) == key_lower_of(l.key) = "user-agent"

\* the lines that are not ignored: they hold a colon, and a crawl delay parses
Effective(content) ==
    SelectSeq(content,
              LAMBDA l : /\ l.colon
                         /\ key_lower_of(l.key) = "crawl-delay" => float_of(l.value) # None)

\* the members of the index set I in increasing order
Ascending(I) ==
    [n \in 1..Cardinality(I) |-> CHOOSE i \in I : Cardinality({j \in I : j <= i}) = n]

\* the group that line i of E falls under: the run of consecutive
\* user-agent lines that ends at the last user-agent line before i
GroupAt(E, i) ==
    LET before == {m \in 1..(i - 1) : IsAgentLine(E[m])}
        j == SetMax(before, 0)
    IN  {m \in 1..j : \A n \in m..j : IsAgentLine(E[n])}

\* the user-agent lines of the group of line i that name the agent
Mentions(E, agent, i) == Cardinality({n \in GroupAt(E, i) : E[n].value = agent})

\* every index of idx as often as its group names the agent
RECURSIVE PerMention(_, _, _)
PerMention(E, agent, idx) ==
    IF idx = <<>> THEN <<>>
    ELSE [n \in 1..Mentions(E, agent, Head(idx)) |-> Head(idx)]
            \o PerMention(E, agent, Tail(idx))

\* the directives with the given key that apply to the agent, in order; a
\* directive counts once for each line of its group that names the agent
DirectivesOf(E, agent, key) ==
    PerMention(E, agent, Ascending({i \in DOMAIN E : key_lower_of(E[i].key) = key}))

\* the values of the lines of E at the indices idx that are not empty
ValuesAt(E, idx) ==
    LET kept == SelectSeq(idx, LAMBDA i : E[i].value # <<>>)
    IN  [n \in DOMAIN kept |-> E[kept[n]].value]

\* the rules of an agent token: its patterns in document order, the last of
\* its crawl delays
RulesOf(E, agent) ==
    LET delays == DirectivesOf(E, agent, "crawl-delay")
    IN  [allows |-> ValuesAt(E, DirectivesOf(E, agent, "allow")),
         disallows |-> ValuesAt(E, DirectivesOf(E, agent, "disallow")),
         crawl_delay |-> IF delays = <<>> THEN None
                         ELSE float_of(E[delays[Len(delays)]].value)]

\* the rules the grouping rule selects: those of the first agent token that
\* equals ours but for case, else those of "*", else none
SelectedRules(content) ==
    LET E == Effective(content)
        ours == {i \in DOMAIN E : IsAgentLine(E[i]) /\ lower(E[i].value) = lower(user_agent)}
        star == {i \in DOMAIN E : IsAgentLine(E[i]) /\ E[i].value = <<"*">>}
    IN  IF ours # {} THEN RulesOf(E, E[SetMin(ours)].value)
        ELSE IF star # {} THEN RulesOf(E, <<"*">>)
        ELSE EmptyRules

\* C26: for every robots document _parse_robots returns the allow, disallow
\* and crawl-delay directives of the groups of the selected agent: a run of
\* consecutive user-agent lines is one group, a directive applies to every
\* agent of the group before it; our agent is matched without regard to
\* case, else "*" is taken, else the rules are empty; directives before any
\* user-agent line, lines without a colon and crawl delays that do not
\* parse are ignored.  (A pattern is listed once for each line of its group
\* that names the agent, and a pattern without a value is not listed.)
C26_ParseRobotsGroups ==
    (call.fn = "_parse_robots" /\ call.returned # <<>>)
       => call.returned[1] = SelectedRules(call.content)

\* a document was parsed in which our group and the "*" group are joined
\* across a crawl delay that does not parse, so that the rule of the "*"
\* group applies to us
C26_Witness ==
    /\ call.fn = "_parse_robots"
    /\ call.content = <<Line("User-agent", <<"s", "e", "o">>), Line("Crawl-Delay", <<"x">>),
                        Line("User-agent", <<"*">>), Line("Disallow", <<"/">>)>>
    /\ call.returned = <<[EmptyRules EXCEPT !.disallows = <<<<"/">>>>]>>

(***************************************************************************)
(* C27.  same_domain_only.                                                 *)
(***************************************************************************)
\* the hosts (with port) of the seeds
SeedHosts == {seed_urls[i].netloc : i \in DOMAIN seed_urls}

\* the hrefs of a body that normalize_url returns before it raises on one
Normalized(body) ==
    LET bad == {i \in DOMAIN body : body[i] = BadLink}
    IN  IF bad = {} THEN body ELSE SubSeq(body, 1, SetMin(bad) - 1)

\* the step is the publication of the page of worker w, stop not being set
PublishesPage(w) ==
    /\ worker[w].pc = "publish"
    /\ worker'[w].pc # "publish"
    /\ ~stop_event

\* the links that worker w goes on to hand to _mark_enqueued after the step
HandedOn(w) == IF worker'[w].pc = "links" THEN worker'[w].links ELSE <<>>

\* C27: with same_domain_only enabled every URL that is enqueued, in the
\* hands of a worker, published or emitted has the host (with port) of a
\* seed; of the links of a page exactly those of another host than the
\* page are discarded, the others are handed to _mark_enqueued in document
\* order, and each is in enqueued after that; with same_domain_only
\* disabled no link is discarded.
C27_SameDomainOnly ==
    /\ [](same_domain_only =>
             \A u \in enqueued \cup InHand \cup UrlsOf(results) \cup UrlsOf(emitted) :
                u.netloc \in SeedHosts)
    /\ [][\A w \in Workers :
             /\ PublishesPage(w) =>
                   HandedOn(w) =
                      SelectSeq(Normalized(worker[w].html),
                                LAMBDA l : same_domain_only => l.netloc = worker[w].url.netloc)
             /\ worker[w].pc = "links" =>
                   /\ Head(worker[w].links) \in enqueued'
                   /\ enqueued' \subseteq enqueued \cup {Head(worker[w].links)}]_vars

\* with same_domain_only enabled the crawl of the star has ended without
\* the cap being reached: the links to the host of the seed were enqueued,
\* the link to the other host was not
C27_Witness ==
    /\ same_domain_only
    /\ web = WebStar
    /\ driver = "done"
    /\ ~stop_event
    /\ U1 \in UrlsOf(emitted)
    /\ enqueued = {U1, U2, U4}

\* with same_domain_only disabled the link to the other host was enqueued
C27_DisabledKeepsOtherHosts ==
    /\ ~same_domain_only
    /\ web = WebStar
    /\ U1 \in UrlsOf(emitted)
    /\ U3 \in enqueued

=============================================================================
